---------------------------- MODULE Spec2Model ----------------------------
(***************************************************************************)
(* ResupplyPlanner: the EDDN listener (src/src/run_listener.py), the store *)
(* operations it calls (src/src/app/crud.py) and the bulk loader's flush   *)
(* (src/scripts/manual_systems_update.py), as a state machine over the     *)
(* four tables of the store; then the name index (src/src/app/             *)
(* autocomplete.py), the route planner (src/scripts/plan_route.py), a run  *)
(* of the bulk loader and the listener's receive loop, each with a         *)
(* specification of its own.                                               *)
(*                                                                         *)
(* Conventions.  A table is a function from primary key to row; a key      *)
(* outside its DOMAIN has no row.  An instant is a natural number (hours); *)
(* a timestamp string is <<local hour, zone suffix>>.  A numeric column in *)
(* thousandths of a light-year is an integer.  Python's None / missing key *)
(* is Absent for strings, NoAddr for ids, <<>> for lists and optional      *)
(* numbers.                                                                *)
(***************************************************************************)
EXTENDS Integers, Sequences, FiniteSets, TLC

VARIABLES
    store,      \* the committed contents of the database
    pc,         \* where the process is: "poll", "recv", "batch", "done"
    frame,      \* the decoded frame being processed (listener)
    batch,      \* the batch being flushed (bulk loader)
    before,     \* the committed store when the current operation started
    out,        \* what the last operation reported
    replay,     \* the frame in hand is a re-delivery of the previous one
    delivered,  \* the system records handed to the store so far
    plan,       \* the frames of a batch, by index, still to be delivered
    planned,    \* the indices of the batch chosen at the start
    index,      \* the name index (autocomplete.py) and its last search
    nav,        \* the route planner's run (plan_route.py)
    job,        \* the bulk loader's run (manual_systems_update.py)
    life,       \* the listener's loop and shutdown (run_listener.py main)
    scope,      \* one "with get_db()" block and its session (database.py)
    txn         \* the listener's transaction beside another writer

vars ==
    <<store, pc, frame, batch, before, out, replay, delivered, plan, planned,
      index, nav, job, life, scope, txn>>

---------------------------------------------------------------------------
(* Bounds of the model. *)

NumAddr == 2        \* system addresses 1..NumAddr
MaxTs == 2          \* timestamp strings carry local hours 1..MaxTs
MaxRoute == 2       \* longest Route list
MaxBatch == 2       \* longest bulk batch
NumMarkets == 1     \* market ids 1..NumMarkets
MaxListings == 2    \* longest commodities list
MaxDelivered == 3   \* deliveries followed for one system_address
MaxPlan == 3        \* frames in a batch delivered in every order
MaxNames == 2       \* most lines of the names file
NumStars == 3       \* systems in the store the planner searches
BatchSize == 2      \* batch_size of the bulk loader (1000 in the code)
MaxFile == 3        \* most records of the file the bulk loader reads
MaxWire == 3        \* messages the relay delivers during one run of the listener

(* Program constants. *)

SentinelCoord == 999999999      \* 999999.999 ly, in thousandths
MaxHops == 100                  \* plan_route: max_hops
MaxBubbleRadius == 20           \* max_bubble_radius = 10.0 ly, in half light-years

---------------------------------------------------------------------------
(* Values. *)

Absent == "absent"
NoAddr == 0
NoPos == <<>>
NoTs == <<>>
None == <<>>            \* an optional number: <<>> or <<n>>

Addrs == 1..NumAddr
Pos1 == <<1000, 2000, 3000>>
BadPos == <<1000, 2000>>
SentinelPos == <<SentinelCoord, SentinelCoord, SentinelCoord>>

Put(f, k, v) == [x \in (DOMAIN f) \cup {k} |-> IF x = k THEN v ELSE f[x]]
EmptyTable == [x \in {} |-> x]

\* The components that take no part in a specification stay at these.
NoIndex == [loaded |-> FALSE]
NoNav == [pc |-> "off"]
NoJob == [pc |-> "off"]
NoLife == [pc |-> "off"]
NoScope == [pc |-> "off"]
NoTxn == [pc |-> "off"]

EmptyStore ==
    [systems |-> EmptyTable, stations |-> EmptyTable,
     commodities |-> <<>>, listings |-> EmptyTable]

---------------------------------------------------------------------------
(* run_listener.py: schemas. *)

COMMODITY_SCHEMA_REF == "https://eddn.edcd.io/schemas/commodity/3"

SUPPORTED_SCHEMAS ==
    { "https://eddn.edcd.io/schemas/journal/1",
      "https://eddn.edcd.io/schemas/fssallbodiesfound/1",
      "https://eddn.edcd.io/schemas/navroute/1",
      "https://eddn.edcd.io/schemas/approachsettlement/1",
      "https://eddn.edcd.io/schemas/codexentry/1",
      "https://eddn.edcd.io/schemas/fssbodysignals/1",
      "https://eddn.edcd.io/schemas/fssdiscoveryscan/1",
      "https://eddn.edcd.io/schemas/fsssignaldiscovered/1",
      "https://eddn.edcd.io/schemas/navbeaconscan/1",
      "https://eddn.edcd.io/schemas/scanbarycentre/1",
      "https://eddn.edcd.io/schemas/commodity/3" }

---------------------------------------------------------------------------
(* crud.py: the per-row system path, inside one session.                   *)
(*                                                                         *)
(* The session is created with autoflush=False (database.py), so a query   *)
(* is answered from the rows the database holds: a row the session has     *)
(* added but not flushed is not found, while a row it has loaded and       *)
(* changed is returned as the changed object (identity map).               *)
(*   sess.dirty : address -> the changed object of a loaded row            *)
(*   sess.new   : the pending objects, in the order added                  *)
(*   sess.calls : create_or_update_system calls so far                     *)
(*   sess.ret   : the value the last parse returned                        *)

NewSession == [dirty |-> EmptyTable, new |-> <<>>, calls |-> 0, ret |-> FALSE]

\* get_system_by_address: found iff the database holds the row.
SystemFound(sess, db, address) == address \in DOMAIN db.systems

GetSystemByAddress(sess, db, address) ==
    IF address \in DOMAIN sess.dirty THEN sess.dirty[address]
    ELSE db.systems[address]

OrSentinel(c) == IF c # None THEN c[1] ELSE SentinelCoord

CreateOrUpdateSystem_KeepsCoords(sess, db, system_address, name, x, y, z, updated_at) ==
    LET coord_x == OrSentinel(x)
        coord_y == OrSentinel(y)
        coord_z == OrSentinel(z)
        pg_point == <<coord_x, coord_y, coord_z>>
    IN  IF SystemFound(sess, db, system_address)
        THEN LET existing_system == GetSystemByAddress(sess, db, system_address)
                 updated ==
                    [name |-> IF name # Absent THEN name ELSE existing_system.name,
                     x |-> IF x # None THEN coord_x ELSE existing_system.x,
                     y |-> IF y # None THEN coord_y ELSE existing_system.y,
                     z |-> IF z # None THEN coord_z ELSE existing_system.z,
                     coords |-> IF x # None THEN pg_point ELSE existing_system.coords,
                     updated_at |-> updated_at]
             IN  [sess EXCEPT !.dirty = Put(@, system_address, updated),
                              !.calls = @ + 1]
        ELSE LET system ==
                    [system_address |-> system_address,
                     name |-> IF name # Absent THEN name ELSE "Unknown",
                     x |-> coord_x, y |-> coord_y, z |-> coord_z,
                     coords |-> pg_point, updated_at |-> updated_at]
             IN  [sess EXCEPT !.new = Append(@, system), !.calls = @ + 1]

CreateOrUpdateSystem(sess, db, system_address, name, x, y, z, updated_at) ==
    LET coord_x == OrSentinel(x)
        coord_y == OrSentinel(y)
        coord_z == OrSentinel(z)
        pg_point == <<coord_x, coord_y, coord_z>>
    IN  IF SystemFound(sess, db, system_address)
        THEN LET existing_system == GetSystemByAddress(sess, db, system_address)
                 updated ==
                    [name |-> IF name # Absent THEN name ELSE existing_system.name,
                     x |-> coord_x, y |-> coord_y, z |-> coord_z,
                     coords |-> pg_point, updated_at |-> updated_at]
             IN  [sess EXCEPT !.dirty = Put(@, system_address, updated),
                              !.calls = @ + 1]
        ELSE LET system ==
                    [system_address |-> system_address,
                     name |-> IF name # Absent THEN name ELSE "Unknown",
                     x |-> coord_x, y |-> coord_y, z |-> coord_z,
                     coords |-> pg_point, updated_at |-> updated_at]
             IN  [sess EXCEPT !.new = Append(@, system), !.calls = @ + 1]

---------------------------------------------------------------------------
(* run_listener.py: parse_and_update_system. *)

PyOr(a, b) == IF a # Absent THEN a ELSE b

NotNewer_OlderOnly(existing, message_timestamp) ==
    existing.updated_at > message_timestamp

NotNewer_Never(existing, message_timestamp) == FALSE

\* Line 77: the stored row is not older than the message.
NotNewer(existing, message_timestamp) ==
    existing.updated_at >= message_timestamp

ParseSystemItem_NeedsContent(sess, db, body, message_timestamp) ==
    LET system_address == body.SystemAddress IN
    IF system_address = NoAddr THEN [sess EXCEPT !.ret = FALSE]
    ELSE IF /\ SystemFound(sess, db, system_address)
            /\ NotNewer(GetSystemByAddress(sess, db, system_address),
                        message_timestamp)
    THEN [sess EXCEPT !.ret = FALSE]
    ELSE IF PyOr(body.StarSystem, body.System) = Absent /\ body.StarPos = NoPos
    THEN [sess EXCEPT !.ret = FALSE]
    ELSE LET name == PyOr(body.StarSystem, body.System)
             coords == body.StarPos
             ok == coords # NoPos /\ Len(coords) = 3
             x == IF ok THEN <<coords[1]>> ELSE None
             y == IF ok THEN <<coords[2]>> ELSE None
             z == IF ok THEN <<coords[3]>> ELSE None
             s == CreateOrUpdateSystem(sess, db, system_address, name,
                                       x, y, z, message_timestamp)
         IN  [s EXCEPT !.ret = TRUE]

\* Lines 71-97: one body that is not a Route list.
ParseSystemItem(sess, db, body, message_timestamp) ==
    LET system_address == body.SystemAddress IN
    IF system_address = NoAddr THEN [sess EXCEPT !.ret = FALSE]
    ELSE IF /\ SystemFound(sess, db, system_address)
            /\ NotNewer(GetSystemByAddress(sess, db, system_address),
                        message_timestamp)
    THEN [sess EXCEPT !.ret = FALSE]
    ELSE LET name == PyOr(body.StarSystem, body.System)
             coords == body.StarPos
             ok == coords # NoPos /\ Len(coords) = 3
             x == IF ok THEN <<coords[1]>> ELSE None
             y == IF ok THEN <<coords[2]>> ELSE None
             z == IF ok THEN <<coords[3]>> ELSE None
             s == CreateOrUpdateSystem(sess, db, system_address, name,
                                       x, y, z, message_timestamp)
         IN  [s EXCEPT !.ret = TRUE]

\* Lines 63-69: the Route list, element by element.
RECURSIVE ParseRoute(_, _, _, _, _)
ParseRoute(sess, db, route, message_timestamp, updated_count) ==
    IF route = <<>> THEN [sess EXCEPT !.ret = (updated_count > 0)]
    ELSE LET route_item == Head(route)
             s == IF route_item.SystemAddress # NoAddr
                  THEN ParseSystemItem(sess, db, route_item, message_timestamp)
                  ELSE [sess EXCEPT !.ret = FALSE]
         IN  ParseRoute(s, db, Tail(route), message_timestamp,
                        IF s.ret THEN updated_count + 1 ELSE updated_count)

ParseAndUpdateSystem(sess, db, message_body, message_timestamp) ==
    IF message_body.hasRoute
    THEN ParseRoute(sess, db, message_body.Route, message_timestamp, 0)
    ELSE ParseSystemItem(sess, db, message_body, message_timestamp)

---------------------------------------------------------------------------
(* crud.py: the station and its listings, inside one session.  Nothing is  *)
(* queried again after it was changed, so the changes are written to the   *)
(* transaction's view db as they are made; they reach the store only at    *)
(* commit.                                                                 *)

NoList == [isNull |-> TRUE, items |-> <<>>]
List(items) == [isNull |-> FALSE, items |-> items]

\* get_system_by_name: .first() of an unordered query, so any system of
\* that name may be the one returned; with none, NoAddr.
SystemsNamed(db, name) ==
    LET hits == {a \in DOMAIN db.systems : db.systems[a].name = name}
    IN  IF hits = {} THEN {NoAddr} ELSE hits

GetOrCreateStation_KeepsProhibited(db, market_id, name, prohibited, updated_at, system_address) ==
    IF market_id \in DOMAIN db.stations
    THEN LET station == db.stations[market_id]
             updated ==
                [name |-> name,
                 prohibited |-> IF prohibited.isNull THEN station.prohibited
                                ELSE prohibited,
                 updated_at |-> updated_at,
                 system_address |->
                    IF station.system_address = NoAddr /\ system_address # NoAddr
                    THEN system_address ELSE station.system_address]
         IN  [db EXCEPT !.stations = Put(@, market_id, updated)]
    ELSE LET station ==
                [name |-> name, prohibited |-> prohibited,
                 updated_at |-> updated_at, system_address |-> system_address]
         IN  [db EXCEPT !.stations = Put(@, market_id, station)]

GetOrCreateStation_Relinks(db, market_id, name, prohibited, updated_at, system_address) ==
    LET station ==
            [name |-> name, prohibited |-> prohibited,
             updated_at |-> updated_at, system_address |-> system_address]
    IN  [db EXCEPT !.stations = Put(@, market_id, station)]

GetOrCreateStation_LinksResolved(db, market_id, name, prohibited, updated_at, system_address) ==
    IF market_id \in DOMAIN db.stations
    THEN LET station == db.stations[market_id]
             updated ==
                [name |-> name, prohibited |-> prohibited,
                 updated_at |-> updated_at,
                 system_address |->
                    IF system_address # NoAddr
                    THEN system_address ELSE station.system_address]
         IN  [db EXCEPT !.stations = Put(@, market_id, updated)]
    ELSE LET station ==
                [name |-> name, prohibited |-> prohibited,
                 updated_at |-> updated_at, system_address |-> system_address]
         IN  [db EXCEPT !.stations = Put(@, market_id, station)]

GetOrCreateStation(db, market_id, name, prohibited, updated_at, system_address) ==
    IF market_id \in DOMAIN db.stations
    THEN LET station == db.stations[market_id]
             updated ==
                [name |-> name, prohibited |-> prohibited,
                 updated_at |-> updated_at,
                 system_address |->
                    IF station.system_address = NoAddr /\ system_address # NoAddr
                    THEN system_address ELSE station.system_address]
         IN  [db EXCEPT !.stations = Put(@, market_id, updated)]
    ELSE LET station ==
                [name |-> name, prohibited |-> prohibited,
                 updated_at |-> updated_at, system_address |-> system_address]
         IN  [db EXCEPT !.stations = Put(@, market_id, station)]

\* The id of a commodity is its rank in order of creation.
CommodityId(commodities, name) ==
    CHOOSE i \in 1..Len(commodities) : commodities[i] = name

CommodityKnown(commodities, name) ==
    \E i \in 1..Len(commodities) : commodities[i] = name

RECURSIVE ResolveCommodities_AlwaysAdds(_, _)
ResolveCommodities_AlwaysAdds(commodities, commodities_data) ==
    IF commodities_data = <<>> THEN commodities
    ELSE LET commodity_name == Head(commodities_data).name
             next == IF commodity_name # Absent
                     THEN Append(commodities, commodity_name)
                     ELSE commodities
         IN  ResolveCommodities_AlwaysAdds(next, Tail(commodities_data))

\* get_or_create_commodity over the whole list (crud.py 146-151): a name is
\* resolved once (commodity_map), from the pending rows or the table, and
\* otherwise added.
RECURSIVE ResolveCommodities(_, _)
ResolveCommodities(commodities, commodities_data) ==
    IF commodities_data = <<>> THEN commodities
    ELSE LET commodity_name == Head(commodities_data).name
             next == IF commodity_name # Absent
                        /\ ~CommodityKnown(commodities, commodity_name)
                     THEN Append(commodities, commodity_name)
                     ELSE commodities
         IN  ResolveCommodities(next, Tail(commodities_data))

\* int(v or 0)
IntOrZero(v) == IF v = None THEN 0 ELSE v[1]

UpsertRow(commodities, market_id, data, timestamp) ==
    [station_market_id |-> market_id,
     commodity_id |-> CommodityId(commodities, data.name),
     buy_price |-> IntOrZero(data.buyPrice),
     sell_price |-> IntOrZero(data.sellPrice),
     demand |-> IntOrZero(data.demand),
     demand_bracket |-> IntOrZero(data.demandBracket),
     stock |-> IntOrZero(data.stock),
     stock_bracket |-> IntOrZero(data.stockBracket),
     mean_price |-> IntOrZero(data.meanPrice),
     updated_at |-> timestamp]

\* crud.py 154-175: one row per element that has a name.
RECURSIVE UpsertData(_, _, _, _)
UpsertData(commodities, market_id, commodities_data, timestamp) ==
    IF commodities_data = <<>> THEN <<>>
    ELSE LET data == Head(commodities_data)
             rest == UpsertData(commodities, market_id,
                                Tail(commodities_data), timestamp)
         IN  IF data.name = Absent THEN rest
             ELSE <<UpsertRow(commodities, market_id, data, timestamp)>> \o rest

ListingValues(row) ==
    [buy_price |-> row.buy_price, sell_price |-> row.sell_price,
     demand |-> row.demand, demand_bracket |-> row.demand_bracket,
     stock |-> row.stock, stock_bracket |-> row.stock_bracket,
     mean_price |-> row.mean_price, updated_at |-> row.updated_at]

\* INSERT ... ON CONFLICT (station_market_id, commodity_id) DO UPDATE, with
\* no WHERE: every proposed row is written.  PostgreSQL refuses a statement
\* that proposes the same key twice ("cannot affect row a second time").
ListingKey(row) == <<row.station_market_id, row.commodity_id>>

ProposesTwice(rows) ==
    \E i, j \in 1..Len(rows) : i < j /\ ListingKey(rows[i]) = ListingKey(rows[j])

RECURSIVE ExecuteListingUpsert_Accumulates(_, _)
ExecuteListingUpsert_Accumulates(listings, rows) ==
    IF rows = <<>> THEN listings
    ELSE LET key == ListingKey(Head(rows))
             values == ListingValues(Head(rows))
         IN  ExecuteListingUpsert_Accumulates(
                Put(listings, key,
                    IF key \in DOMAIN listings
                    THEN [values EXCEPT !.stock = @ + listings[key].stock]
                    ELSE values),
                Tail(rows))

RECURSIVE ExecuteListingUpsert(_, _)
ExecuteListingUpsert(listings, rows) ==
    IF rows = <<>> THEN listings
    ELSE ExecuteListingUpsert(
            Put(listings, ListingKey(Head(rows)), ListingValues(Head(rows))),
            Tail(rows))

\* create_or_update_station_commodities: the view after it, and whether the
\* statement raised.
CreateOrUpdateStationCommodities(db, market_id, commodities_data, timestamp) ==
    IF commodities_data = <<>> THEN [db |-> db, raised |-> FALSE]
    ELSE LET commodities == ResolveCommodities(db.commodities, commodities_data)
             flushed == [db EXCEPT !.commodities = commodities]
             upsert_data == UpsertData(commodities, market_id,
                                       commodities_data, timestamp)
         IN  IF upsert_data = <<>> THEN [db |-> flushed, raised |-> FALSE]
             ELSE IF ProposesTwice(upsert_data)
             THEN [db |-> flushed, raised |-> TRUE]
             ELSE [db |-> [flushed EXCEPT !.listings =
                                ExecuteListingUpsert(@, upsert_data)],
                   raised |-> FALSE]

---------------------------------------------------------------------------
(* run_listener.py: parse_and_update_station_commodities.  The result is   *)
(* the transaction's view, the value returned, whether an exception left   *)
(* the function, and the number of get_or_create_station calls.            *)

NoMarket == 0

StationNotNewer_OlderOnly(existing_station, message_timestamp) ==
    existing_station.updated_at > message_timestamp

\* Line 110: the stored station is not older than the message.
StationNotNewer(existing_station, message_timestamp) ==
    existing_station.updated_at >= message_timestamp

ParseAndUpdateStationCommodities_NoSystemNameTest(db, message_body, message_timestamp, pick) ==
    LET market_id == message_body.marketId
        ignored == [db |-> db, ret |-> FALSE, raised |-> FALSE, stationCalls |-> 0]
    IN
    IF market_id = NoMarket THEN ignored
    ELSE IF /\ market_id \in DOMAIN db.stations
            /\ StationNotNewer(db.stations[market_id], message_timestamp)
    THEN ignored
    ELSE IF message_body.stationName = Absent
    THEN ignored
    ELSE LET withStation ==
                GetOrCreateStation(db, market_id, message_body.stationName,
                                   message_body.prohibited, message_timestamp, pick)
             r == CreateOrUpdateStationCommodities(
                        withStation, market_id, message_body.commodities,
                        message_timestamp)
         IN  [db |-> r.db, ret |-> ~r.raised, raised |-> r.raised,
              stationCalls |-> 1]

ParseAndUpdateStationCommodities(db, message_body, message_timestamp, pick) ==
    LET market_id == message_body.marketId
        ignored == [db |-> db, ret |-> FALSE, raised |-> FALSE, stationCalls |-> 0]
    IN
    IF market_id = NoMarket THEN ignored
    ELSE IF /\ market_id \in DOMAIN db.stations
            /\ StationNotNewer(db.stations[market_id], message_timestamp)
    THEN ignored
    ELSE IF message_body.stationName = Absent \/ message_body.systemName = Absent
    THEN ignored
    ELSE LET withStation ==
                GetOrCreateStation(db, market_id, message_body.stationName,
                                   message_body.prohibited, message_timestamp, pick)
             r == CreateOrUpdateStationCommodities(
                        withStation, market_id, message_body.commodities,
                        message_timestamp)
         IN  [db |-> r.db, ret |-> ~r.raised, raised |-> r.raised,
              stationCalls |-> 1]

---------------------------------------------------------------------------
(* run_listener.py: process_eddn_message. *)

Zones == {"Z", "+00:00", "+01:00"}

\* str.replace("Z", "+00:00")
ReplaceZ(s) == <<s[1], IF s[2] = "Z" THEN "+00:00" ELSE s[2]>>

\* datetime.fromisoformat: the instant a local hour and an offset denote.
FromIsoFormat(s) ==
    CASE s[2] = "+00:00" -> s[1]
      [] s[2] = "+01:00" -> s[1] - 1
      [] s[2] = "Z" -> s[1]

MessageTimestamp_HeaderFirst(message) ==
    IF message.gatewayTimestamp # <<>>
    THEN message.gatewayTimestamp[1]
            - (IF message.gatewayTimestamp[2] = "+01:00" THEN 1 ELSE 0)
    ELSE message.timestamp[1]
            - (IF message.timestamp[2] = "+01:00" THEN 1 ELSE 0)

\* Lines 160-171: which field gives the timestamp.
TimestampSource(message) ==
    IF message.timestamp # NoTs THEN "message"
    ELSE IF message.gatewayTimestamp # NoTs THEN "header"
    ELSE "none"

MessageTimestamp(message) ==
    IF message.timestamp # NoTs
    THEN FromIsoFormat(ReplaceZ(message.timestamp))
    ELSE FromIsoFormat(ReplaceZ(message.gatewayTimestamp))

\* Session.commit() of the system session: the pending rows are inserted
\* and the changed rows updated; two pending rows with one primary key make
\* the INSERT fail (IntegrityError), and nothing is written.
PendingTwice(sess) ==
    \E i, j \in 1..Len(sess.new) :
        i < j /\ sess.new[i].system_address = sess.new[j].system_address

SystemRow(obj) ==
    [name |-> obj.name, x |-> obj.x, y |-> obj.y, z |-> obj.z,
     coords |-> obj.coords, updated_at |-> obj.updated_at]

FlushSystems(systems, sess) ==
    [a \in (DOMAIN systems) \cup {sess.new[i].system_address : i \in 1..Len(sess.new)}
        |-> IF a \in DOMAIN sess.dirty THEN sess.dirty[a]
            ELSE IF a \in DOMAIN systems THEN systems[a]
            ELSE SystemRow(sess.new[CHOOSE i \in 1..Len(sess.new) :
                                        sess.new[i].system_address = a])]

\* accepted and ignored are the two values process_eddn_message returns;
\* both are FALSE when an exception leaves it instead.
Ignored(db) ==
    [store |-> db, result |-> "ignored", handler |-> "none", opened |-> FALSE,
     commits |-> 0, calls |-> 0, stationCalls |-> 0,
     accepted |-> FALSE, ignored |-> TRUE]

SystemBranch(db, message_body, message_timestamp) ==
    LET sess == ParseAndUpdateSystem(NewSession, db, message_body,
                                     message_timestamp)
        base == [store |-> db, result |-> "ignored", handler |-> "system",
                 opened |-> TRUE, commits |-> 0, calls |-> sess.calls,
                 stationCalls |-> 0, accepted |-> FALSE, ignored |-> TRUE]
    IN  IF ~sess.ret THEN base
        ELSE IF PendingTwice(sess)
        THEN [base EXCEPT !.result = "raised", !.commits = 1, !.ignored = FALSE]
        ELSE [base EXCEPT !.result = "accepted", !.commits = 1,
                          !.accepted = TRUE, !.ignored = FALSE,
                          !.store = [db EXCEPT !.systems = FlushSystems(@, sess)]]

CommodityBranch_CommitsAnyway(db, message_body, message_timestamp, pick) ==
    LET r == ParseAndUpdateStationCommodities(db, message_body,
                                              message_timestamp, pick)
        base == [store |-> db, result |-> "ignored", handler |-> "commodity",
                 opened |-> TRUE, commits |-> 1, calls |-> 0,
                 stationCalls |-> r.stationCalls,
                 accepted |-> FALSE, ignored |-> TRUE]
    IN  IF r.raised THEN [base EXCEPT !.result = "raised", !.ignored = FALSE]
        ELSE IF r.ret
        THEN [base EXCEPT !.result = "accepted",
                          !.accepted = TRUE, !.ignored = FALSE, !.store = r.db]
        ELSE base

CommodityBranch(db, message_body, message_timestamp, pick) ==
    LET r == ParseAndUpdateStationCommodities(db, message_body,
                                              message_timestamp, pick)
        base == [store |-> db, result |-> "ignored", handler |-> "commodity",
                 opened |-> TRUE, commits |-> 0, calls |-> 0,
                 stationCalls |-> r.stationCalls,
                 accepted |-> FALSE, ignored |-> TRUE]
    IN  IF r.raised THEN [base EXCEPT !.result = "raised", !.ignored = FALSE]
        ELSE IF r.ret
        THEN [base EXCEPT !.result = "accepted", !.commits = 1,
                          !.accepted = TRUE, !.ignored = FALSE, !.store = r.db]
        ELSE base

ProcessEddnMessage_NoCommodityRoute(db, message, pick) ==
    IF TimestampSource(message) = "none" THEN Ignored(db)
    ELSE IF message.schemaRef \in SUPPORTED_SCHEMAS
    THEN SystemBranch(db, message.message, MessageTimestamp(message))
    ELSE Ignored(db)

ProcessEddnMessage(db, message, pick) ==
    LET schema == message.schemaRef IN
    IF TimestampSource(message) = "none" THEN Ignored(db)
    ELSE IF schema \in SUPPORTED_SCHEMAS
    THEN IF schema = COMMODITY_SCHEMA_REF
         THEN CommodityBranch(db, message.message, MessageTimestamp(message), pick)
         ELSE SystemBranch(db, message.message, MessageTimestamp(message))
    ELSE Ignored(db)

\* The systems get_system_by_name may return for this frame.
Picks(db, message) == SystemsNamed(db, message.message.systemName)

---------------------------------------------------------------------------
(* crud.py: bulk_upsert_systems.  INSERT ... VALUES (systems_data)         *)
(* ON CONFLICT (system_address) DO UPDATE SET <OnConflictSet>              *)
(* WHERE systems.updated_at < excluded.updated_at.                          *)

\* The columns of the SET clause (crud.py 32-39).
OnConflictSet == {"name", "x", "y", "z", "coords", "updated_at"}

Excluded(row, rec, col) == IF col \in OnConflictSet THEN rec[col] ELSE row[col]

ConflictWhere_Unguarded(row, rec) == TRUE

ConflictWhere_OrEqual(row, rec) == row.updated_at <= rec.updated_at

\* The WHERE clause of the DO UPDATE.
ConflictWhere(row, rec) == row.updated_at < rec.updated_at

\* The row after the DO UPDATE.
DoUpdate(row, rec) ==
    [name |-> Excluded(row, rec, "name"),
     x |-> Excluded(row, rec, "x"),
     y |-> Excluded(row, rec, "y"),
     z |-> Excluded(row, rec, "z"),
     coords |-> Excluded(row, rec, "coords"),
     updated_at |-> Excluded(row, rec, "updated_at")]

\* The statement, row by row.  st.touched holds the keys this statement
\* has inserted or updated: PostgreSQL refuses to affect such a row a
\* second time, and the statement fails as a whole.
RECURSIVE ExecuteSystemUpsert(_, _)
ExecuteSystemUpsert(st, systems_data) ==
    IF systems_data = <<>> \/ st.raised THEN st
    ELSE LET rec == Head(systems_data)
             key == rec.system_address
             next ==
                IF key \in st.touched THEN [st EXCEPT !.raised = TRUE]
                ELSE IF key \notin DOMAIN st.systems
                THEN [st EXCEPT !.systems = Put(@, key, SystemRow(rec)),
                                !.touched = @ \cup {key},
                                !.rowcount = @ + 1]
                ELSE IF ConflictWhere(st.systems[key], rec)
                THEN [st EXCEPT !.systems = Put(@, key, DoUpdate(st.systems[key], rec)),
                                !.touched = @ \cup {key},
                                !.rowcount = @ + 1]
                ELSE st
         IN  ExecuteSystemUpsert(next, Tail(systems_data))

BulkUpsertSystems(db, systems_data) ==
    IF systems_data = <<>>
    THEN [db |-> db, rowcount |-> 0, raised |-> FALSE]
    ELSE LET st == ExecuteSystemUpsert(
                        [systems |-> db.systems, touched |-> {},
                         rowcount |-> 0, raised |-> FALSE],
                        systems_data)
         IN  IF st.raised
             THEN [db |-> db, rowcount |-> 0, raised |-> TRUE]
             ELSE [db |-> [db EXCEPT !.systems = st.systems],
                   rowcount |-> st.rowcount, raised |-> FALSE]

---------------------------------------------------------------------------
(* The frames and batches the model delivers. *)

Hours == 1..MaxTs
ZuluTs == {<<h, "Z">> : h \in Hours}
TsStrings == {<<h, zone>> : h \in Hours, zone \in Zones}

JOURNAL == "https://eddn.edcd.io/schemas/journal/1"
NAVROUTE == "https://eddn.edcd.io/schemas/navroute/1"
UNSUPPORTED == "https://eddn.edcd.io/schemas/unsupported/1"

SystemItem(address, starSystem, system, pos) ==
    [SystemAddress |-> address, StarSystem |-> starSystem, System |-> system,
     StarPos |-> pos]

Body(item, hasRoute, route, market, station, systemName, prohibited, commodities) ==
    [SystemAddress |-> item.SystemAddress, StarSystem |-> item.StarSystem,
     System |-> item.System, StarPos |-> item.StarPos,
     hasRoute |-> hasRoute, Route |-> route,
     marketId |-> market, stationName |-> station, systemName |-> systemName,
     prohibited |-> prohibited, commodities |-> commodities]

SystemBody(item) ==
    Body(item, FALSE, <<>>, NoMarket, Absent, Absent, NoList, <<>>)

RouteBody(item, route) ==
    Body(item, TRUE, route, NoMarket, Absent, Absent, NoList, <<>>)

Frame(schema, gateway, timestamp, body) ==
    [schemaRef |-> schema, gatewayTimestamp |-> gateway,
     timestamp |-> timestamp, message |-> body]

NoItem == SystemItem(NoAddr, Absent, Absent, NoPos)
NoFrame == Frame("", NoTs, NoTs, SystemBody(NoItem))

SeqsUpTo(S, n) == UNION {[1..k -> S] : k \in 0..n}

\* Journal frames: for the first address every combination of the fields
\* the parser reads, for each other address one body.
SystemItems ==
    {NoItem}
    \cup {SystemItem(1, ss, sy, pos) :
            ss \in {Absent, "Sol"}, sy \in {Absent, "Old"},
            pos \in {NoPos, Pos1, BadPos}}
    \cup {SystemItem(a, "Sol", Absent, Pos1) : a \in Addrs \ {1}}

ContentFrames ==
    {Frame(JOURNAL, NoTs, ts, SystemBody(item)) :
        ts \in ZuluTs, item \in SystemItems}

\* One body under every pair of body and header timestamps.
SolItem == SystemItem(1, "Sol", Absent, Pos1)

TimestampFrames ==
    {Frame(JOURNAL, gw, ts, SystemBody(SolItem)) :
        gw \in {NoTs} \cup ZuluTs, ts \in {NoTs} \cup TsStrings}

\* NavRoute frames: Route lists whose elements may lack SystemAddress or
\* repeat it; a few also carry a SystemAddress of their own.
RouteItems == {SystemItem(a, "Sol", Absent, Pos1) : a \in {NoAddr} \cup Addrs}

RouteFrames ==
    {Frame(NAVROUTE, NoTs, ts, RouteBody(NoItem, route)) :
        ts \in ZuluTs, route \in SeqsUpTo(RouteItems, MaxRoute)}
    \cup
    {Frame(NAVROUTE, NoTs, ts, RouteBody(SolItem, route)) :
        ts \in ZuluTs, route \in SeqsUpTo(RouteItems, 1)}

\* Routes of three elements of which the first lacks SystemAddress.
ScenarioFrames ==
    {Frame(NAVROUTE, NoTs, ts,
           RouteBody(NoItem, <<SystemItem(NoAddr, "Sol", Absent, Pos1),
                               SystemItem(a, "Sol", Absent, Pos1),
                               SystemItem(b, "Sol", Absent, Pos1)>>)) :
        ts \in ZuluTs, a \in Addrs, b \in Addrs}

SystemFrames ==
    ContentFrames \cup TimestampFrames \cup RouteFrames \cup ScenarioFrames

\* The records the bulk loader builds (manual_systems_update.py 100-108):
\* always a name, and the sentinel where a coordinate is missing.
BulkRecord(address, name, pos, updated_at) ==
    [system_address |-> address, name |-> name,
     x |-> pos[1], y |-> pos[2], z |-> pos[3], coords |-> pos,
     updated_at |-> updated_at]

BulkRecords ==
    {BulkRecord(a, "Sol", Pos1, t) : a \in Addrs, t \in Hours}
    \cup {BulkRecord(1, "Old", SentinelPos, t) : t \in Hours}

Batches == SeqsUpTo(BulkRecords, MaxBatch)

\* Commodity frames.  A listing carries one price and one quantity in all
\* its price and quantity fields, or none of them; one listing carries
\* negative numbers.
Markets == 1..NumMarkets

Listing(name, price, qty) ==
    [name |-> name, buyPrice |-> price, sellPrice |-> price, meanPrice |-> price,
     demand |-> qty, demandBracket |-> qty, stock |-> qty, stockBracket |-> qty]

Listings ==
    {Listing(n, None, None) : n \in {Absent, "gold"}}
    \cup {Listing(n, <<10>>, <<5>>) : n \in {"gold", "tea"}}
    \cup {Listing("tea", <<-10>>, <<-5>>)}

CommodityBody(market, station, systemName, prohibited, commodities) ==
    Body(NoItem, FALSE, <<>>, market, station, systemName, prohibited, commodities)

\* Every commodities list, for one station.
ListingFrames ==
    {Frame(COMMODITY_SCHEMA_REF, NoTs, ts,
           CommodityBody(1, "Hub", "Sol", NoList, commodities)) :
        ts \in ZuluTs, commodities \in SeqsUpTo(Listings, MaxListings)}

\* For the first market every combination of the station fields, with one
\* listing; for each other market one body; and a frame without marketId.
StationFrames ==
    {Frame(COMMODITY_SCHEMA_REF, NoTs, ts,
           CommodityBody(1, station, systemName, prohibited,
                         <<Listing("gold", <<10>>, <<5>>)>>)) :
        ts \in ZuluTs,
        station \in {Absent, "Hub", "Port"},
        systemName \in {Absent, "Sol", "Old"},
        prohibited \in {NoList, List(<<"Slaves">>)}}
    \cup
    {Frame(COMMODITY_SCHEMA_REF, NoTs, ts,
           CommodityBody(market, "Hub", "Sol", NoList,
                         <<Listing("gold", <<10>>, <<5>>)>>)) :
        ts \in ZuluTs, market \in {NoMarket} \cup (Markets \ {1})}

\* One body that both ingestors could read, under every schema the router
\* knows, one it does not know, and none; with and without a timestamp.
BothBody ==
    Body(SolItem, FALSE, <<>>, 1, "Hub", "Sol", NoList,
         <<Listing("tea", <<10>>, <<5>>)>>)

SchemaFrames ==
    {Frame(schema, NoTs, ts, BothBody) :
        schema \in SUPPORTED_SCHEMAS \cup {UNSUPPORTED, ""},
        ts \in {NoTs, <<MaxTs, "Z">>}}

\* The systems a station may name: system 1 is "Sol", system 2 is "Sol" or
\* "Old", every other system is "Old".
NamedSystemFrames ==
    {Frame(JOURNAL, NoTs, <<1, "Z">>, SystemBody(SystemItem(a, "Sol", Absent, Pos1))) :
        a \in {1, 2}}
    \cup {Frame(JOURNAL, NoTs, <<1, "Z">>, SystemBody(SystemItem(a, "Old", Absent, Pos1))) :
            a \in Addrs \ {1}}

MarketFrames == StationFrames \cup SchemaFrames \cup NamedSystemFrames

---------------------------------------------------------------------------
(* The processes.  The listener handles one frame at a time               *)
(* (run_listener.py main, 220-253); the loader flushes one batch at a time *)
(* (manual_systems_update.py 117-121).                                     *)

NoOut ==
    [op |-> "none", result |-> "none", handler |-> "none", opened |-> FALSE,
     commits |-> 0, calls |-> 0, stationCalls |-> 0, rowcount |-> 0,
     accepted |-> FALSE, ignored |-> FALSE]

Init ==
    /\ store = EmptyStore
    /\ pc = "poll"
    /\ frame = NoFrame
    /\ batch = <<>>
    /\ before = EmptyStore
    /\ out = NoOut
    /\ replay = FALSE
    /\ delivered = <<>>
    /\ plan = {}
    /\ planned = {}
    /\ index = NoIndex
    /\ nav = NoNav
    /\ job = NoJob
    /\ life = NoLife
    /\ scope = NoScope
    /\ txn = NoTxn

\* subscriber.recv() and json.loads: a frame arrives.
Recv(frames) ==
    /\ pc = "poll"
    /\ \E m \in frames : frame' = m
    /\ pc' = "recv"
    /\ UNCHANGED <<store, batch, before, out, replay, delivered, plan, planned, index, nav, job, life, scope, txn>>

\* process_eddn_message(message), with the session's commit or release.
Process ==
    /\ pc = "recv"
    /\ \E pick \in Picks(store, frame) :
        LET r == ProcessEddnMessage(store, frame, pick) IN
        /\ store' = r.store
        /\ out' = [op |-> "frame", result |-> r.result, handler |-> r.handler,
                   opened |-> r.opened, commits |-> r.commits,
                   calls |-> r.calls, stationCalls |-> r.stationCalls,
                   rowcount |-> 0, accepted |-> r.accepted,
                   ignored |-> r.ignored]
    /\ before' = store
    /\ pc' = "done"
    /\ UNCHANGED <<frame, batch, replay, delivered, plan, planned, index, nav, job, life, scope, txn>>

\* The relay delivers the frame just processed once more.
Redeliver ==
    /\ pc = "done"
    /\ out.op = "frame"
    /\ ~replay
    /\ replay' = TRUE
    /\ pc' = "recv"
    /\ UNCHANGED <<store, frame, batch, before, out, delivered, plan, planned, index, nav, job, life, scope, txn>>

\* The loader has read a batch of records.
ReadBatch(batches) ==
    /\ pc = "poll"
    /\ \E b \in batches : batch' = b
    /\ pc' = "batch"
    /\ UNCHANGED <<store, frame, before, out, replay, delivered, plan, planned, index, nav, job, life, scope, txn>>

\* rows_affected = bulk_upsert_systems(db, systems_batch); db.commit()
\* -- or, when the statement raises, db.rollback().
FlushBatch ==
    /\ pc = "batch"
    /\ LET r == BulkUpsertSystems(store, batch) IN
        /\ store' = r.db
        /\ out' = [NoOut EXCEPT !.op = "bulk",
                                !.result = IF r.raised THEN "raised" ELSE "done",
                                !.rowcount = r.rowcount,
                                !.commits = IF r.raised THEN 0 ELSE 1]
    /\ before' = store
    /\ pc' = "done"
    /\ UNCHANGED <<frame, batch, replay, delivered, plan, planned, index, nav, job, life, scope, txn>>

\* The loop goes round: the next poll, or the next batch.
NextPoll ==
    /\ pc = "done"
    /\ pc' = "poll"
    /\ frame' = NoFrame
    /\ batch' = <<>>
    /\ before' = store
    /\ out' = NoOut
    /\ replay' = FALSE
    /\ UNCHANGED <<store, delivered, plan, planned, index, nav, job, life, scope, txn>>

Next ==
    \/ Recv(SystemFrames)
    \/ Process
    \/ Redeliver
    \/ ReadBatch(Batches)
    \/ FlushBatch
    \/ NextPoll

Spec == Init /\ [][Next]_vars

\* The listener alone, on frames of every schema: stations and the systems
\* they name.
NextMarket ==
    \/ Recv(MarketFrames)
    \/ Process
    \/ NextPoll

SpecMarket == Init /\ [][NextMarket]_vars

\* The listener alone, on the snapshots of one station.
NextListings ==
    \/ Recv(ListingFrames)
    \/ Process
    \/ Redeliver
    \/ NextPoll

SpecListings == Init /\ [][NextListings]_vars

---------------------------------------------------------------------------
(* One system_address, written by the listener and by the loader in any    *)
(* interleaving of whole frames and whole batches.  delivered lists, in    *)
(* order of arrival, the upsert records handed to the program for it.      *)

\* The address followed: the first one.
TheAddr == CHOOSE a \in Addrs : \A b \in Addrs : a <= b

OnlyTheAddr(item) == item.SystemAddress \in {NoAddr, TheAddr}

SingleFrames ==
    {m \in ContentFrames \cup RouteFrames :
        /\ OnlyTheAddr(m.message)
        /\ \A i \in DOMAIN m.message.Route : OnlyTheAddr(m.message.Route[i])}

SingleBatches ==
    {b \in Batches : \A i \in DOMAIN b : b[i].system_address = TheAddr}

\* The record a journal body or a Route element delivers.
ItemRecord(item, message_timestamp) ==
    [name |-> PyOr(item.StarSystem, item.System), pos |-> item.StarPos,
     updated_at |-> message_timestamp]

RECURSIVE RouteRecords(_, _)
RouteRecords(route, message_timestamp) ==
    IF route = <<>> THEN <<>>
    ELSE (IF Head(route).SystemAddress = TheAddr
          THEN <<ItemRecord(Head(route), message_timestamp)>> ELSE <<>>)
         \o RouteRecords(Tail(route), message_timestamp)

FrameRecords(m) ==
    IF TimestampSource(m) = "none"
          \/ m.schemaRef \notin SUPPORTED_SCHEMAS \ {COMMODITY_SCHEMA_REF}
    THEN <<>>
    ELSE IF m.message.hasRoute
    THEN RouteRecords(m.message.Route, MessageTimestamp(m))
    ELSE IF m.message.SystemAddress = TheAddr
    THEN <<ItemRecord(m.message, MessageTimestamp(m))>>
    ELSE <<>>

BatchRecords(b) ==
    [i \in DOMAIN b |->
        [name |-> b[i].name, pos |-> b[i].coords, updated_at |-> b[i].updated_at]]

\* The listener receives and processes one frame.
DeliverFrame ==
    /\ pc = "poll"
    /\ Len(delivered) < MaxDelivered
    /\ \E m \in SingleFrames : \E pick \in Picks(store, m) :
        LET r == ProcessEddnMessage(store, m, pick) IN
        /\ store' = r.store
        /\ out' = [op |-> "frame", result |-> r.result, handler |-> r.handler,
                   opened |-> r.opened, commits |-> r.commits,
                   calls |-> r.calls, stationCalls |-> r.stationCalls,
                   rowcount |-> 0, accepted |-> r.accepted,
                   ignored |-> r.ignored]
        /\ delivered' = delivered \o FrameRecords(m)
        /\ frame' = m
    /\ before' = store
    /\ batch' = <<>>
    /\ UNCHANGED <<pc, replay, plan, planned, index, nav, job, life, scope, txn>>

\* The loader flushes one batch.
DeliverBatch ==
    /\ pc = "poll"
    /\ Len(delivered) < MaxDelivered
    /\ \E b \in SingleBatches :
        LET r == BulkUpsertSystems(store, b) IN
        /\ store' = r.db
        /\ out' = [NoOut EXCEPT !.op = "bulk",
                                !.result = IF r.raised THEN "raised" ELSE "done",
                                !.rowcount = r.rowcount,
                                !.commits = IF r.raised THEN 0 ELSE 1]
        /\ delivered' = delivered \o BatchRecords(b)
        /\ batch' = b
    /\ before' = store
    /\ frame' = NoFrame
    /\ UNCHANGED <<pc, replay, plan, planned, index, nav, job, life, scope, txn>>

NextSingle ==
    \/ DeliverFrame
    \/ DeliverBatch

SpecSingle == Init /\ [][NextSingle]_vars

---------------------------------------------------------------------------
(* A batch of frames delivered to the listener in every order, from the    *)
(* empty store.  planned is the batch, plan the frames still to come.      *)

BatchFrames ==
    {Frame(JOURNAL, NoTs, <<h, "Z">>, SystemBody(SystemItem(1, n, Absent, pos))) :
        h \in Hours, n \in {Absent, "Sol"}, pos \in {NoPos, Pos1}}
    \cup
    {Frame(JOURNAL, NoTs, <<1, "Z">>, SystemBody(SystemItem(2, "Sol", Absent, Pos1))),
     Frame(NAVROUTE, NoTs, <<MaxTs, "Z">>,
           RouteBody(NoItem, <<SystemItem(1, "Old", Absent, Pos1),
                               SystemItem(2, "Old", Absent, NoPos)>>))}
    \cup
    {Frame(COMMODITY_SCHEMA_REF, NoTs, <<h, "Z">>,
           CommodityBody(1, "Hub", "Sol", NoList,
                         <<Listing("gold", <<10>>, <<5>>)>>)) : h \in Hours}
    \cup
    {Frame(COMMODITY_SCHEMA_REF, NoTs, <<h, "Z">>,
           CommodityBody(1, "Port", "Sol", List(<<"Slaves">>), commodities)) :
        h \in Hours,
        commodities \in {<<Listing("tea", <<10>>, <<5>>), Listing("gold", None, None)>>,
                         <<Listing("gold", <<10>>, <<5>>), Listing("gold", None, None)>>}}

\* The subsets of S with at most n elements.
RECURSIVE SubsetsUpTo(_, _)
SubsetsUpTo(S, n) ==
    IF n = 0 THEN {{}}
    ELSE LET smaller == SubsetsUpTo(S, n - 1)
         IN  smaller \cup {T \cup {x} : T \in smaller, x \in S}

\* The keys a frame carries a record for.
FrameKeys(m) ==
    IF m.schemaRef = COMMODITY_SCHEMA_REF
    THEN {<<"market", m.message.marketId>>}
    ELSE IF m.message.hasRoute
    THEN {<<"system", m.message.Route[i].SystemAddress>> : i \in DOMAIN m.message.Route}
    ELSE {<<"system", m.message.SystemAddress>>}

\* No two frames of the batch carry the same updated_at for one key.
DistinctPerKey(S) ==
    \A f, g \in S :
        (f # g /\ FrameKeys(f) \cap FrameKeys(g) # {})
            => MessageTimestamp(f) # MessageTimestamp(g)

InitBatch ==
    /\ planned \in {S \in SubsetsUpTo(BatchFrames, MaxPlan) : DistinctPerKey(S)}
    /\ plan = planned
    /\ store = EmptyStore
    /\ pc = "poll"
    /\ frame = NoFrame
    /\ batch = <<>>
    /\ before = EmptyStore
    /\ out = NoOut
    /\ replay = FALSE
    /\ delivered = <<>>
    /\ index = NoIndex
    /\ nav = NoNav
    /\ job = NoJob
    /\ life = NoLife
    /\ scope = NoScope
    /\ txn = NoTxn

\* The listener receives and processes the next frame of the batch.
DeliverPlanned ==
    /\ pc = "poll"
    /\ \E m \in plan : \E pick \in Picks(store, m) :
        LET r == ProcessEddnMessage(store, m, pick) IN
        /\ store' = r.store
        /\ out' = [op |-> "frame", result |-> r.result, handler |-> r.handler,
                   opened |-> r.opened, commits |-> r.commits,
                   calls |-> r.calls, stationCalls |-> r.stationCalls,
                   rowcount |-> 0, accepted |-> r.accepted,
                   ignored |-> r.ignored]
        /\ frame' = m
        /\ plan' = plan \ {m}
    /\ before' = store
    /\ UNCHANGED <<pc, batch, replay, delivered, planned, index, nav, job, life, scope, txn>>

NextBatch == DeliverPlanned

SpecBatch == InitBatch /\ [][NextBatch]_vars

---------------------------------------------------------------------------
(* Properties of the system path and of the bulk upsert, under Spec.  In a *)
(* "done" state, before is the committed store the operation started from  *)
(* and store the committed store it left.                                  *)

FrameDone == pc = "done" /\ out.op = "frame"
BulkDone == pc = "done" /\ out.op = "bulk"

\* The instant a timestamp string denotes.
Instant(s) == s[1] - (IF s[2] = "+01:00" THEN 1 ELSE 0)

\* The timestamp string the router is to use: the body's, else the header's.
Effective(m) == IF m.timestamp # NoTs THEN m.timestamp ELSE m.gatewayTimestamp

\* A frame the router hands to the system ingestor as one system message.
IsSystemMessage(m) ==
    /\ m.schemaRef \in SUPPORTED_SCHEMAS \ {COMMODITY_SCHEMA_REF}
    /\ Effective(m) # NoTs
    /\ ~m.message.hasRoute
    /\ m.message.SystemAddress # NoAddr

\* C1: from one committed store to the next, no system row disappears and
\* no system row's updated_at decreases, whether the listener or the bulk
\* upsert wrote it.
C1_UpdatedAtNeverDecreases ==
    \A a \in DOMAIN before.systems :
        /\ a \in DOMAIN store.systems
        /\ store.systems[a].updated_at >= before.systems[a].updated_at

\* A stored row was overwritten by a newer record.
C1_Witness ==
    /\ pc = "done"
    /\ \E a \in DOMAIN before.systems :
            store.systems[a].updated_at > before.systems[a].updated_at

\* C3: a bulk upsert that returns has inserted every record whose key was
\* absent, has changed an existing row only into a record of the batch
\* with a strictly greater updated_at, and returns the number of rows it
\* inserted or changed; a one-record batch upserted again returns 0 and
\* changes nothing.
C3_BulkUpsert ==
    (BulkDone /\ out.result = "done") =>
        /\ \A i \in 1..Len(batch) : batch[i].system_address \in DOMAIN store.systems
        /\ \A a \in DOMAIN store.systems :
                (a \notin DOMAIN before.systems \/ store.systems[a] # before.systems[a])
                => \E i \in 1..Len(batch) :
                        /\ batch[i].system_address = a
                        /\ store.systems[a] = SystemRow(batch[i])
                        /\ (a \in DOMAIN before.systems =>
                                batch[i].updated_at > before.systems[a].updated_at)
        /\ \A a \in DOMAIN before.systems :
                (\A i \in 1..Len(batch) :
                    batch[i].system_address = a =>
                        batch[i].updated_at <= before.systems[a].updated_at)
                => store.systems[a] = before.systems[a]
        /\ out.rowcount =
                Cardinality({a \in DOMAIN store.systems :
                                \/ a \notin DOMAIN before.systems
                                \/ store.systems[a] # before.systems[a]})
        /\ (Len(batch) = 1 /\ batch[1].system_address \notin DOMAIN before.systems)
                => out.rowcount = 1
        /\ (/\ Len(batch) = 1
            /\ batch[1].system_address \in DOMAIN before.systems
            /\ before.systems[batch[1].system_address] = SystemRow(batch[1]))
                => (out.rowcount = 0 /\ store = before)

\* The record that made the row is upserted once more.
C3_Witness ==
    /\ BulkDone /\ out.result = "done"
    /\ Len(batch) = 1
    /\ batch[1].system_address \in DOMAIN before.systems
    /\ before.systems[batch[1].system_address] = SystemRow(batch[1])
    /\ out.rowcount = 0

\* C4: a bulk upsert that overwrites a row replaces name, x, y, z, coords,
\* updated_at and row_updated_at (the SET clause test_bulk_upsert_systems
\* asserts).
C4_SetClauseHasRowUpdatedAt ==
    (/\ BulkDone
     /\ \E a \in DOMAIN before.systems : store.systems[a] # before.systems[a])
    => {"name", "x", "y", "z", "coords", "updated_at", "row_updated_at"}
            \subseteq OnConflictSet

\* C5: a frame delivered a second time leaves the store as the first
\* delivery left it, and the second delivery is reported as ignored.
C5_ReplayIgnored ==
    (FrameDone /\ replay) => (store = before /\ out.result = "ignored")

\* C7: a system message whose timestamp is not after the stored row's is
\* ignored: parse_and_update_system returns False without calling
\* create_or_update_system, and the store is unchanged.
C7_StaleSystemIgnored ==
    (/\ FrameDone
     /\ IsSystemMessage(frame)
     /\ frame.message.SystemAddress \in DOMAIN before.systems
     /\ Instant(Effective(frame))
            <= before.systems[frame.message.SystemAddress].updated_at)
    => (out.result = "ignored" /\ out.calls = 0 /\ out.commits = 0
        /\ store = before)

\* A message with exactly the stored timestamp was ignored.
C7_Witness ==
    /\ FrameDone
    /\ IsSystemMessage(frame)
    /\ frame.message.SystemAddress \in DOMAIN before.systems
    /\ Instant(Effective(frame))
            = before.systems[frame.message.SystemAddress].updated_at
    /\ out.result = "ignored"

\* C9: the router uses message.timestamp when present and otherwise
\* header.gatewayTimestamp (an accepted system message stores that instant,
\* and it is accepted exactly when that instant is newer than the row);
\* with neither, the frame is ignored, no session is opened and the store
\* is unchanged.
C9_EffectiveTimestamp ==
    FrameDone =>
        /\ (frame.timestamp = NoTs /\ frame.gatewayTimestamp = NoTs)
                => (out.result = "ignored" /\ ~out.opened /\ store = before)
        /\ IsSystemMessage(frame) =>
            LET a == frame.message.SystemAddress
                t == Instant(Effective(frame))
            IN  /\ out.result = "accepted" => store.systems[a].updated_at = t
                /\ out.result = "accepted" <=>
                        (a \in DOMAIN before.systems => before.systems[a].updated_at < t)

\* Both timestamps were present and differed, and the body's was stored.
C9_Witness ==
    /\ FrameDone
    /\ IsSystemMessage(frame)
    /\ frame.timestamp # NoTs /\ frame.gatewayTimestamp # NoTs
    /\ Instant(frame.timestamp) < Instant(frame.gatewayTimestamp)
    /\ out.result = "accepted"
    /\ store.systems[frame.message.SystemAddress].updated_at = Instant(frame.timestamp)

---------------------------------------------------------------------------
(* Properties of the router and of the commodity path, under SpecMarket. *)

\* A frame the router hands to the commodity ingestor with a marketId.
IsCommodityMessage(m) ==
    /\ m.schemaRef = COMMODITY_SCHEMA_REF
    /\ Effective(m) # NoTs
    /\ m.message.marketId # NoMarket

\* C8: a commodity message whose timestamp is not after the stored
\* station's is ignored before get_or_create_station and writes nothing;
\* and from one committed store to the next no station disappears and no
\* station's updated_at decreases.
C8_StaleCommodityIgnored ==
    /\ (/\ FrameDone
        /\ IsCommodityMessage(frame)
        /\ frame.message.marketId \in DOMAIN before.stations
        /\ Instant(Effective(frame))
                <= before.stations[frame.message.marketId].updated_at)
       => (out.result = "ignored" /\ out.stationCalls = 0 /\ out.commits = 0
           /\ store = before)
    /\ \A m \in DOMAIN before.stations :
        /\ m \in DOMAIN store.stations
        /\ store.stations[m].updated_at >= before.stations[m].updated_at

\* A snapshot older than the stored station was ignored.
C8_Witness ==
    /\ FrameDone
    /\ IsCommodityMessage(frame)
    /\ frame.message.stationName # Absent /\ frame.message.systemName # Absent
    /\ frame.message.marketId \in DOMAIN before.stations
    /\ Instant(Effective(frame))
            < before.stations[frame.message.marketId].updated_at
    /\ out.result = "ignored"

\* C10: a frame with a timestamp goes to the commodity ingestor alone when
\* its schema is the commodity schema (no system row is written), to the
\* system ingestor alone when its schema is another supported one (no
\* station, commodity or listing is written), and otherwise is ignored
\* without a session and without a change to the store.
C10_Routing ==
    (FrameDone /\ Effective(frame) # NoTs) =>
        /\ frame.schemaRef = COMMODITY_SCHEMA_REF =>
            /\ out.handler = "commodity"
            /\ out.calls = 0
            /\ store.systems = before.systems
        /\ frame.schemaRef \in SUPPORTED_SCHEMAS \ {COMMODITY_SCHEMA_REF} =>
            /\ out.handler = "system"
            /\ out.stationCalls = 0
            /\ store.stations = before.stations
            /\ store.commodities = before.commodities
            /\ store.listings = before.listings
        /\ frame.schemaRef \notin SUPPORTED_SCHEMAS =>
            /\ out.handler = "none"
            /\ out.result = "ignored"
            /\ ~out.opened
            /\ store = before

\* A commodity frame that also carries a fresh system was accepted, and
\* its system is not in the store.
C10_Witness ==
    /\ FrameDone
    /\ frame.schemaRef = COMMODITY_SCHEMA_REF
    /\ frame.message.SystemAddress # NoAddr
    /\ out.result = "accepted"
    /\ frame.message.marketId \in DOMAIN store.stations
    /\ frame.message.SystemAddress \notin DOMAIN store.systems

---------------------------------------------------------------------------
(* Properties of one system's row against the records delivered for it,    *)
(* under SpecSingle.                                                        *)

MaxUpdatedAt(recs) ==
    CHOOSE t \in {recs[i].updated_at : i \in DOMAIN recs} :
        \A i \in DOMAIN recs : recs[i].updated_at <= t

\* The row a record stands for: "Unknown" for no name, the sentinel for
\* no three-element position.
RecordRow(rec) ==
    [name |-> IF rec.name = Absent THEN "Unknown" ELSE rec.name,
     pos |-> IF Len(rec.pos) = 3 THEN rec.pos ELSE SentinelPos,
     updated_at |-> rec.updated_at]

\* C2: once records have been delivered for the address, its row carries
\* the greatest updated_at among them, and its name, x, y, z and coords are
\* those of a record bearing that greatest updated_at.
C2_FinalRowIsMaxRecord ==
    delivered # <<>> =>
        /\ TheAddr \in DOMAIN store.systems
        /\ \E i \in DOMAIN delivered :
            LET want == RecordRow(delivered[i])
                row == store.systems[TheAddr] IN
            /\ want.updated_at = MaxUpdatedAt(delivered)
            /\ row.updated_at = want.updated_at
            /\ row.name = want.name
            /\ <<row.x, row.y, row.z>> = want.pos
            /\ row.coords = want.pos

---------------------------------------------------------------------------
(* Properties of a batch delivered in every order, under SpecBatch.        *)

\* The store one fixed order of the batch leaves.
RECURSIVE InFixedOrder(_, _)
InFixedOrder(db, S) ==
    IF S = {} THEN db
    ELSE LET m == CHOOSE f \in S : TRUE
             pick == CHOOSE a \in Picks(db, m) : TRUE
         IN  InFixedOrder(ProcessEddnMessage(db, m, pick).store, S \ {m})

BatchDone == plan = {} /\ planned # {}

\* C6: whatever the order in which the frames of a batch with distinct
\* updated_at per key were processed, the final store is the same.
C6_AnyOrderSameStore ==
    BatchDone => store = InFixedOrder(EmptyStore, planned)

\* Every system record of the frame carries a name.
AllNamed(m) ==
    \/ m.schemaRef = COMMODITY_SCHEMA_REF
    \/ /\ ~m.message.hasRoute
       /\ PyOr(m.message.StarSystem, m.message.System) # Absent
    \/ /\ m.message.hasRoute
       /\ \A i \in DOMAIN m.message.Route :
            PyOr(m.message.Route[i].StarSystem, m.message.Route[i].System) # Absent

StationColumns(st) ==
    [name |-> st.name, prohibited |-> st.prohibited, updated_at |-> st.updated_at]

\* C6, amended: whatever the order, the systems table is the same when
\* every system record of the batch carries a name, and every station has
\* the same name, prohibited list and updated_at.
C6_AnyOrderSameSystems ==
    BatchDone =>
        LET fixed == InFixedOrder(EmptyStore, planned) IN
        /\ (\A m \in planned : AllNamed(m)) => store.systems = fixed.systems
        /\ DOMAIN store.stations = DOMAIN fixed.stations
        /\ \A k \in DOMAIN store.stations :
            StationColumns(store.stations[k]) = StationColumns(fixed.stations[k])

\* A batch of named records ended with a frame that found a newer row or
\* a newer station in the store.
C6_Witness ==
    /\ BatchDone
    /\ \A m \in planned : AllNamed(m)
    /\ Cardinality(planned) = MaxPlan
    /\ out.result = "ignored"
    /\ \E m \in planned :
        /\ m # frame
        /\ FrameKeys(m) \cap FrameKeys(frame) # {}
        /\ MessageTimestamp(m) > MessageTimestamp(frame)
    /\ store.systems # EmptyTable
    /\ store.stations # EmptyTable

---------------------------------------------------------------------------
(* Properties of the router's result and of the commodity path, under      *)
(* SpecMarket.                                                              *)

\* C11: when process_eddn_message returns, exactly one of accepted and
\* ignored is true, the session's commit was called once if the message
\* was accepted and not at all if it was ignored.
C11_ExactlyOneAndCommit ==
    (FrameDone /\ out.result # "raised") =>
        /\ out.accepted # out.ignored
        /\ out.accepted => out.commits = 1
        /\ out.ignored => out.commits = 0
        /\ out.accepted <=> out.result = "accepted"

\* A commodity message was ignored inside an open session.
C11_Witness ==
    /\ FrameDone
    /\ out.handler = "commodity"
    /\ out.opened
    /\ out.ignored /\ ~out.accepted
    /\ out.commits = 0

\* A frame the router hands to the commodity ingestor.
ToCommodityIngestor(m) ==
    m.schemaRef = COMMODITY_SCHEMA_REF /\ Effective(m) # NoTs

\* C12: a commodity message without marketId, stationName or systemName is
\* ignored, get_or_create_station is not called and no row of any table is
\* created or changed.
C12_MissingKeyIgnored ==
    (/\ FrameDone
     /\ ToCommodityIngestor(frame)
     /\ \/ frame.message.marketId = NoMarket
        \/ frame.message.stationName = Absent
        \/ frame.message.systemName = Absent)
    => (/\ out.result = "ignored" /\ out.ignored /\ ~out.accepted
        /\ out.stationCalls = 0 /\ out.commits = 0
        /\ store = before)

\* A snapshot newer than the stored station, with a stationName and
\* listings but no systemName, was ignored.
C12_Witness ==
    /\ FrameDone
    /\ ToCommodityIngestor(frame)
    /\ frame.message.marketId \in DOMAIN before.stations
    /\ Instant(Effective(frame)) > before.stations[frame.message.marketId].updated_at
    /\ frame.message.stationName # Absent
    /\ frame.message.systemName = Absent
    /\ frame.message.commodities # <<>>
    /\ out.result = "ignored"


---------------------------------------------------------------------------
(* Properties of the Route list, under Spec. *)

\* A frame the router hands to the system ingestor with a Route list.
IsRouteMessage(m) ==
    /\ m.schemaRef \in SUPPORTED_SCHEMAS \ {COMMODITY_SCHEMA_REF}
    /\ Effective(m) # NoTs
    /\ m.message.hasRoute

\* The elements of the Route list that carry SystemAddress and are newer
\* than the row stored when the frame arrived, or have no stored row.
FreshElements(m, db) ==
    {i \in 1..Len(m.message.Route) :
        LET a == m.message.Route[i].SystemAddress IN
        /\ a # NoAddr
        /\ a \in DOMAIN db.systems
              => db.systems[a].updated_at < Instant(Effective(m))}

IsBareSystemMessage(m) ==
    /\ IsSystemMessage(m)
    /\ m.message.StarSystem = Absent
    /\ m.message.System = Absent
    /\ m.message.StarPos = NoPos

\* C14: a system message with SystemAddress but no name and no coordinates
\* is accepted when no row is stored or its timestamp is strictly newer
\* than the stored row's, and the committed row's updated_at is the
\* message's timestamp.
C14_BareMessageAccepted ==
    (/\ FrameDone
     /\ IsBareSystemMessage(frame)
     /\ frame.message.SystemAddress \in DOMAIN before.systems
            => before.systems[frame.message.SystemAddress].updated_at
                    < Instant(Effective(frame)))
    => (/\ out.result = "accepted" /\ out.accepted /\ out.commits = 1
        /\ frame.message.SystemAddress \in DOMAIN store.systems
        /\ store.systems[frame.message.SystemAddress].updated_at
                = Instant(Effective(frame)))

\* A stored row was overwritten by a newer message without name and
\* coordinates.
C14_Witness ==
    /\ FrameDone
    /\ IsBareSystemMessage(frame)
    /\ frame.message.SystemAddress \in DOMAIN before.systems
    /\ before.systems[frame.message.SystemAddress].updated_at
            < Instant(Effective(frame))
    /\ out.result = "accepted"
    /\ store.systems[frame.message.SystemAddress].updated_at
            = Instant(Effective(frame))


---------------------------------------------------------------------------
(* Properties of the Station row, under SpecMarket. *)

\* The frame was a commodity message and the router returned accepted.
CommodityAccepted ==
    /\ FrameDone
    /\ IsCommodityMessage(frame)
    /\ out.result = "accepted"

\* No stored system has the name the message gives.
Unresolved == SystemsNamed(before, frame.message.systemName) = {NoAddr}

\* C15, as stated: after an accepted commodity message whose systemName no
\* stored system has, the station's system_address is null; when the name
\* resolves, a newly created station carries that system's address.
C15_UnresolvedIsNull ==
    CommodityAccepted =>
        LET market_id == frame.message.marketId IN
        /\ market_id \in DOMAIN store.stations
        /\ Unresolved => store.stations[market_id].system_address = NoAddr
        /\ (~Unresolved /\ market_id \notin DOMAIN before.stations)
            => store.stations[market_id].system_address
                    \in SystemsNamed(before, frame.message.systemName)

\* C15, amended: a newly created station, and a stored station whose
\* system_address is null, gets the address of a stored system of the given
\* name, or null when there is none; a stored station that has a
\* system_address keeps it, whatever the message names.
C15_StationLink ==
    CommodityAccepted =>
        LET market_id == frame.message.marketId IN
        /\ market_id \in DOMAIN store.stations
        /\ IF /\ market_id \in DOMAIN before.stations
              /\ before.stations[market_id].system_address # NoAddr
           THEN store.stations[market_id].system_address
                    = before.stations[market_id].system_address
           ELSE store.stations[market_id].system_address
                    \in SystemsNamed(before, frame.message.systemName)

\* A linked station was updated by a message naming a system that is not
\* stored, and kept its link.
C15_Witness ==
    /\ CommodityAccepted
    /\ frame.message.marketId \in DOMAIN before.stations
    /\ before.stations[frame.message.marketId].system_address # NoAddr
    /\ Unresolved
    /\ store.stations[frame.message.marketId].system_address
            = before.stations[frame.message.marketId].system_address


\* The system names the commodity messages give.
StationSystemNames ==
    {m.message.systemName : m \in StationFrames \cup SchemaFrames} \ {Absent}

\* A system message with a name has been accepted and committed.
SystemIngested ==
    /\ FrameDone
    /\ IsSystemMessage(frame)
    /\ PyOr(frame.message.StarSystem, frame.message.System) # Absent
    /\ out.result = "accepted"

\* C16: a station is stored without a system reference only when the
\* system it names is not stored, and the later arrival of that system
\* links it.  So when a system has just been ingested and a system of
\* every name that stations give is stored, every system a station waited
\* for has arrived since and every stored station is linked.
C16_SystemArrivalLinks ==
    (/\ SystemIngested
     /\ \A n \in StationSystemNames : SystemsNamed(store, n) # {NoAddr})
    => \A m \in DOMAIN store.stations :
            store.stations[m].system_address # NoAddr

\* C17: after an accepted commodity message for a stored station, the
\* station's prohibited list is the message's (null when the message has
\* none), and its name and updated_at are the message's.
C17_StationOverwritten ==
    (CommodityAccepted /\ frame.message.marketId \in DOMAIN before.stations)
    => LET station == store.stations[frame.message.marketId] IN
       /\ station.prohibited = frame.message.prohibited
       /\ station.name = frame.message.stationName
       /\ station.updated_at = Instant(Effective(frame))

\* A stored prohibited list was replaced by null and the station renamed.
C17_Witness ==
    /\ CommodityAccepted
    /\ frame.message.marketId \in DOMAIN before.stations
    /\ ~before.stations[frame.message.marketId].prohibited.isNull
    /\ frame.message.prohibited.isNull
    /\ store.stations[frame.message.marketId].prohibited.isNull
    /\ before.stations[frame.message.marketId].name # frame.message.stationName
    /\ store.stations[frame.message.marketId].name = frame.message.stationName


---------------------------------------------------------------------------
(* Properties of the commodities and the listings, under SpecListings. *)

\* No two rows of the commodities table have one name.
OneRowPerName(commodities) ==
    \A i, j \in 1..Len(commodities) :
        commodities[i] = commodities[j] => i = j

\* Every row of old is a row of new, with its id and its name.
RowsKept(old, new) ==
    /\ Len(old) <= Len(new)
    /\ \A i \in 1..Len(old) : new[i] = old[i]

\* The commodities table as the session sees it after the flush at
\* crud.py 151, for the frame being handled.
Flushed == ResolveCommodities(before.commodities, frame.message.commodities)

\* C18: the commodities table has at most one row per name, no row is
\* deleted or renamed, so a name keeps its commodity; and within one
\* message a name that occurs several times gets one row, at the flush and
\* in the committed table.
C18_OneCommodityPerName ==
    /\ OneRowPerName(store.commodities)
    /\ RowsKept(before.commodities, store.commodities)
    /\ (FrameDone /\ IsCommodityMessage(frame)) =>
        /\ OneRowPerName(Flushed)
        /\ RowsKept(before.commodities, Flushed)
        /\ \A i \in 1..Len(frame.message.commodities) :
            LET name == frame.message.commodities[i].name IN
            (name # Absent /\ CommodityKnown(before.commodities, name))
                => CommodityId(Flushed, name)
                        = CommodityId(before.commodities, name)
        /\ out.result = "accepted" => store.commodities = Flushed

\* An accepted snapshot listed a stored commodity and a new one: the stored
\* row was reused and one row was added.
C18_Witness ==
    /\ FrameDone
    /\ IsCommodityMessage(frame)
    /\ out.result = "accepted"
    /\ \E i, j \in 1..Len(frame.message.commodities) :
        /\ CommodityKnown(before.commodities, frame.message.commodities[i].name)
        /\ frame.message.commodities[j].name # Absent
        /\ ~CommodityKnown(before.commodities, frame.message.commodities[j].name)
    /\ Len(store.commodities) = Len(before.commodities) + 1


\* The listings of the frame that have a name, and the key of one of them
\* once the frame's commodities are flushed.
NamedListings ==
    {i \in 1..Len(frame.message.commodities) :
        frame.message.commodities[i].name # Absent}

KeyOf(i) ==
    <<frame.message.marketId,
      CommodityId(Flushed, frame.message.commodities[i].name)>>

\* The values the snapshot gives for one listing.
SnapshotValues(data, timestamp) ==
    [buy_price |-> IntOrZero(data.buyPrice),
     sell_price |-> IntOrZero(data.sellPrice),
     demand |-> IntOrZero(data.demand),
     demand_bracket |-> IntOrZero(data.demandBracket),
     stock |-> IntOrZero(data.stock),
     stock_bracket |-> IntOrZero(data.stockBracket),
     mean_price |-> IntOrZero(data.meanPrice),
     updated_at |-> timestamp]

\* C19: the listings hold one row per (station_market_id, commodity_id);
\* an accepted snapshot sets the row of every commodity it lists to its own
\* values and timestamp, replacing the stored ones, and leaves every row it
\* does not list as it was; a message that is not accepted changes no row.
\* So a row always shows the latest accepted snapshot that listed it.
C19_ListingsFollowSnapshots ==
    /\ \A k \in DOMAIN before.listings : k \in DOMAIN store.listings
    /\ (FrameDone /\ out.result # "accepted") => store.listings = before.listings
    /\ CommodityAccepted =>
        /\ \A i, j \in NamedListings : KeyOf(i) = KeyOf(j) => i = j
        /\ DOMAIN store.listings
                = DOMAIN before.listings \cup {KeyOf(i) : i \in NamedListings}
        /\ \A i \in NamedListings :
            store.listings[KeyOf(i)]
                = SnapshotValues(frame.message.commodities[i],
                                 Instant(Effective(frame)))
        /\ \A k \in DOMAIN before.listings :
            k \notin {KeyOf(i) : i \in NamedListings}
                => store.listings[k] = before.listings[k]

\* An accepted snapshot replaced the values of a stored row and omitted
\* another stored row, which stayed as it was.
C19_Witness ==
    /\ CommodityAccepted
    /\ \E i \in NamedListings :
        /\ KeyOf(i) \in DOMAIN before.listings
        /\ before.listings[KeyOf(i)].stock # store.listings[KeyOf(i)].stock
        /\ before.listings[KeyOf(i)].stock # 0
    /\ \E k \in DOMAIN before.listings :
        /\ k \notin {KeyOf(i) : i \in NamedListings}
        /\ store.listings[k] = before.listings[k]
        /\ store.listings[k].updated_at < Instant(Effective(frame))


\* The value columns of a stored listing.
ValueColumns(row) ==
    {row.buy_price, row.sell_price, row.demand, row.demand_bracket,
     row.stock, row.stock_bracket, row.mean_price}

\* C20: every value column of every stored listing is a non-negative
\* integer, whatever the input listing, and a listing whose fields are
\* missing or null is stored with 0 in them.
C20_StoredValuesNonNegative ==
    /\ \A k \in DOMAIN store.listings :
        \A v \in ValueColumns(store.listings[k]) : v \in Nat
    /\ CommodityAccepted =>
        \A i \in NamedListings :
            frame.message.commodities[i].buyPrice = None
                => store.listings[KeyOf(i)].buy_price = 0


---------------------------------------------------------------------------
(* autocomplete.py: the name index.  A string is a sequence of characters; *)
(* Python orders strings by code point, a proper prefix first.             *)

Letters == {"B", "a", "b"}

Ord(c) == CASE c = " " -> 32 [] c = "B" -> 66 [] c = "a" -> 97 [] c = "b" -> 98

\* str.lower()
Lower(s) == [i \in 1..Len(s) |-> IF s[i] = "B" THEN "b" ELSE s[i]]

\* s < t
StrLess(s, t) ==
    \E k \in 0..Len(s) :
        /\ k <= Len(t)
        /\ \A i \in 1..k : s[i] = t[i]
        /\ IF k = Len(s) THEN k < Len(t)
           ELSE k < Len(t) /\ Ord(s[k + 1]) < Ord(t[k + 1])

\* str.startswith
StartsWith(s, prefix) ==
    Len(prefix) <= Len(s) /\ SubSeq(s, 1, Len(prefix)) = prefix

\* str.strip()
Strip(line) ==
    LET inked == {i \in 1..Len(line) : line[i] # " "} IN
    IF inked = {} THEN <<>>
    ELSE SubSeq(line, CHOOSE i \in inked : \A j \in inked : i <= j,
                      CHOOSE i \in inked : \A j \in inked : j <= i)

\* [line.strip() for line in f if line.strip()]
RECURSIVE StrippedLines(_)
StrippedLines(file) ==
    IF file = <<>> THEN <<>>
    ELSE IF Strip(Head(file)) = <<>> THEN StrippedLines(Tail(file))
    ELSE <<Strip(Head(file))>> \o StrippedLines(Tail(file))

IsSorted(system_names) ==
    \A i \in 1..(Len(system_names) - 1) :
        ~StrLess(system_names[i + 1], system_names[i])

\* list.sort(): the names in ascending order, equal names side by side.
RECURSIVE SortNames(_)
SortNames(system_names) ==
    IF system_names = <<>> THEN <<>>
    ELSE LET rest == SortNames(Tail(system_names))
             x == Head(system_names)
             k == Cardinality({i \in 1..Len(rest) : StrLess(rest[i], x)})
         IN  SubSeq(rest, 1, k) \o <<x>> \o SubSeq(rest, k + 1, Len(rest))

\* load_names (32-60); a missing file raises and nothing is loaded.
LoadNamesOf(self) ==
    IF self.loaded THEN [self EXCEPT !.op = "idle"]
    ELSE IF ~self.exists THEN [self EXCEPT !.op = "idle", !.raised = TRUE]
    ELSE LET read == StrippedLines(self.file) IN
         [self EXCEPT !.system_names = IF IsSorted(read) THEN read
                                        ELSE SortNames(read),
                      !.loaded = TRUE, !.op = "idle", !.raised = FALSE]

\* search, lines 88-95: the first position whose lower-cased name is not
\* below the query; positions count from 0.
RECURSIVE BinarySearch(_, _, _, _)
BinarySearch(system_names, query_lower, left, right) ==
    IF left < right
    THEN LET mid == (left + right) \div 2 IN
         IF StrLess(Lower(system_names[mid + 1]), query_lower)
         THEN BinarySearch(system_names, query_lower, mid + 1, right)
         ELSE BinarySearch(system_names, query_lower, left, mid)
    ELSE left

RECURSIVE Collect_Unlimited(_, _, _, _, _)
Collect_Unlimited(system_names, query_lower, i, limit, results) ==
    IF i >= Len(system_names) THEN results
    ELSE LET name == system_names[i + 1] IN
         IF ~StartsWith(Lower(name), query_lower) THEN results
         ELSE Collect_Unlimited(system_names, query_lower, i + 1, limit,
                                Append(results, name))

\* search, lines 98-105: the scan from position i.
RECURSIVE Collect(_, _, _, _, _)
Collect(system_names, query_lower, i, limit, results) ==
    IF i >= Len(system_names) THEN results
    ELSE LET name == system_names[i + 1] IN
         IF ~StartsWith(Lower(name), query_lower) THEN results
         ELSE LET more == Append(results, name) IN
              IF Len(more) >= limit THEN more
              ELSE Collect(system_names, query_lower, i + 1, limit, more)

\* search(query, limit)
SearchOf(self, query, limit) ==
    LET asked == [self EXCEPT !.op = "search", !.query = query, !.limit = limit,
                              !.results = <<>>, !.raised = FALSE]
    IN  IF ~self.loaded THEN [asked EXCEPT !.raised = TRUE]
        ELSE IF query = <<>> THEN asked
        ELSE LET query_lower == Lower(query)
                 start_idx == BinarySearch(self.system_names, query_lower,
                                           0, Len(self.system_names))
             IN  [asked EXCEPT !.results =
                    Collect(self.system_names, query_lower, start_idx, limit, <<>>)]

\* The names file: names of one and two letters, blank lines and a padded
\* name.  The queries: none, a letter, two letters; and the limits the
\* callers pass (api.py: 1 to 100), below and above the number of names.
Names == {<<c>> : c \in Letters} \cup {<<c, d>> : c \in Letters, d \in Letters}
Lines == Names \cup {<<>>, <<" ">>, <<" ", "a", " ">>}
Files == SeqsUpTo(Lines, MaxNames)
Queries == Names \cup {<<>>}
Limits == {1, MaxNames, MaxNames + 1}

InitIndex ==
    /\ store = EmptyStore
    /\ pc = "poll"
    /\ frame = NoFrame
    /\ batch = <<>>
    /\ before = EmptyStore
    /\ out = NoOut
    /\ replay = FALSE
    /\ delivered = <<>>
    /\ plan = {}
    /\ planned = {}
    /\ nav = NoNav
    /\ job = NoJob
    /\ life = NoLife
    /\ scope = NoScope
    /\ txn = NoTxn
    /\ \E file \in Files, exists \in BOOLEAN :
        index = [file |-> IF exists THEN file ELSE <<>>, exists |-> exists,
                 system_names |-> <<>>, loaded |-> FALSE, op |-> "idle",
                 query |-> <<>>, limit |-> 1, results |-> <<>>, raised |-> FALSE]

\* api.py, startup: load_names() runs between requests.
LoadNames ==
    /\ index.op = "idle"
    /\ index' = LoadNamesOf(index)
    /\ UNCHANGED <<store, pc, frame, batch, before, out, replay, delivered,
                   plan, planned, nav, job, life, scope, txn>>

\* api.py, autocomplete: one request is one search.
Search(queries, limits) ==
    /\ index.op # "search"
    /\ \E query \in queries, limit \in limits :
        index' = SearchOf(index, query, limit)
    /\ UNCHANGED <<store, pc, frame, batch, before, out, replay, delivered,
                   plan, planned, nav, job, life, scope, txn>>

\* api.py, autocomplete: the results are returned to the client.
Respond ==
    /\ index.op = "search"
    /\ index' = [index EXCEPT !.op = "idle", !.query = <<>>, !.limit = 1,
                              !.results = <<>>, !.raised = FALSE]
    /\ UNCHANGED <<store, pc, frame, batch, before, out, replay, delivered,
                   plan, planned, nav, job, life, scope, txn>>

NextIndex ==
    \/ LoadNames
    \/ Search(Queries, Limits)
    \/ Respond

SpecIndex == InitIndex /\ [][NextIndex]_vars

\* The last operation was a search of the loaded index.
Searched == index.op = "search" /\ index.loaded

InResults(name) == \E j \in 1..Len(index.results) : index.results[j] = name

Matches(name) == StartsWith(Lower(name), Lower(index.query))

\* C21: a search with a non-empty prefix and a limit above the number of
\* names returns a loaded name if and only if the lower-cased name starts
\* with the lower-cased prefix.
C21_SearchFindsEveryMatch ==
    (Searched /\ index.query # <<>> /\ index.limit > Len(index.system_names))
    => \A i \in 1..Len(index.system_names) :
            InResults(index.system_names[i]) <=> Matches(index.system_names[i])


\* C22: a search returns at most limit names, each starting with the query
\* when both are lower-cased, in the order and adjacency they have in the
\* index; an empty query, and a query no name starts with, return the
\* empty list.
C22_SearchResults ==
    Searched =>
        /\ Len(index.results) <= index.limit
        /\ \A j \in 1..Len(index.results) : Matches(index.results[j])
        /\ \E start \in 0..Len(index.system_names) :
            /\ start + Len(index.results) <= Len(index.system_names)
            /\ \A j \in 1..Len(index.results) :
                index.results[j] = index.system_names[start + j]
        /\ index.query = <<>> => index.results = <<>>
        /\ (\A i \in 1..Len(index.system_names) :
                ~Matches(index.system_names[i])) => index.results = <<>>

\* A search was cut at its limit: two names start with the query and the
\* first of them was returned.
C22_Witness ==
    /\ Searched
    /\ index.query # <<>>
    /\ Len(index.results) = index.limit
    /\ \E i \in 1..(Len(index.system_names) - 1) :
        /\ Matches(index.system_names[i])
        /\ Matches(index.system_names[i + 1])
        /\ index.results = <<index.system_names[i]>>

---------------------------------------------------------------------------
(* scripts/plan_route.py: the route planner.                               *)
(*                                                                         *)
(* In this part a coordinate, a jump range and a bubble radius are whole   *)
(* numbers of half light-years, so the radii 0.5, 1.0, 1.5, ... of the     *)
(* bubble search are 1, 2, 3, ...  A distance is compared through its      *)
(* square, and a coordinate of the target point, which is irrational in    *)
(* general, through LeqRoot.  The planner holds systems by system_address  *)
(* and reads their columns from the store.                                 *)

Sq(n) == n * n

\* calculate_distance(system1, system2), squared.
DistSq(system1, system2) ==
    Sq(system1.x - system2.x) + Sq(system1.y - system2.y) + Sq(system1.z - system2.z)

\* calculate_distance(system1, system2) <= max_jump_range.
WithinRange(system1, system2, max_jump_range) ==
    DistSq(system1, system2) <= Sq(max_jump_range)

\* p * sqrt(d2) <= q, for whole p, q and d2 > 0.
LeqRoot(p, q, d2) ==
    IF p <= 0 THEN q >= 0 \/ Sq(p) * d2 >= Sq(q)
    ELSE q >= 0 /\ Sq(p) * d2 <= Sq(q)

\* One axis of the bubble query: min <= c <= max, where the target is
\* from + (to - from) / total_distance * max_jump_range
\* (calculate_target_coordinates) and min, max are target -+ bubble_radius.
Between(c, from, to, d2, max_jump_range, bubble_radius) ==
    /\ LeqRoot(c - from - bubble_radius, (to - from) * max_jump_range, d2)
    /\ LeqRoot(from - c - bubble_radius, (from - to) * max_jump_range, d2)

\* The addresses the bubble query returns.
Candidates(systems, current, end, max_jump_range, bubble_radius) ==
    LET d2 == DistSq(systems[current], systems[end])
    IN {c \in DOMAIN systems :
            /\ Between(systems[c].x, systems[current].x, systems[end].x,
                       d2, max_jump_range, bubble_radius)
            /\ Between(systems[c].y, systems[current].y, systems[end].y,
                       d2, max_jump_range, bubble_radius)
            /\ Between(systems[c].z, systems[current].z, systems[end].z,
                       d2, max_jump_range, bubble_radius)}

\* valid_candidates: not the current system, and within jump range of it.
ValidCandidates(systems, candidates, current, max_jump_range) ==
    {c \in candidates :
        c # current /\ WithinRange(systems[current], systems[c], max_jump_range)}

\* The candidates of the least score abs(distance - max_jump_range): among
\* equal scores the first of the query's result wins, and the query has no
\* ORDER BY, so any of them can be the one returned.
BestCandidates_Any(systems, valid, current) == valid

BestCandidates(systems, valid, current) ==
    {c \in valid : \A d \in valid :
        DistSq(systems[current], systems[d]) <= DistSq(systems[current], systems[c])}

\* The bubble radius a search starts with (None is <<>>).
FirstBubble_Fixed(previous_bubble_size_needed) == 2

FirstBubble(previous_bubble_size_needed) ==
    IF previous_bubble_size_needed = None THEN 2
    ELSE IF previous_bubble_size_needed[1] > 10 THEN 6
    ELSE IF previous_bubble_size_needed[1] > 6 THEN 4
    ELSE IF previous_bubble_size_needed[1] < 3 THEN 1
    ELSE 2

\* The radius after a search that found no valid candidate.
ExpandBubble_Stuck(bubble_radius, current_results_count) == bubble_radius

ExpandBubble(bubble_radius, current_results_count) ==
    IF current_results_count > 20 THEN bubble_radius + 1
    ELSE IF current_results_count > 5 THEN bubble_radius + 2
    ELSE bubble_radius + 3

\* get_system_by_name: the addresses .first() can return for a name.
SystemsByName(systems, name) == {a \in DOMAIN systems : systems[a].name = name}

\* The two tests "calculate_distance(...) <= max_jump_range" of plan_route:
\* the direct jump before the loop and the jump to the destination in it.
CanJump_Strict(systems, from, to, max_jump_range) ==
    DistSq(systems[from], systems[to]) < Sq(max_jump_range)

CanJump(systems, from, to, max_jump_range) ==
    WithinRange(systems[from], systems[to], max_jump_range)

\* The rows the planner's session writes when it ends: plan_route.py calls
\* session.query only, never add or commit, and get_db closes the session.
Written_TouchesRoute(self, systems) ==
    [a \in {self.route[i] : i \in 1..Len(self.route)} |->
        [systems[a] EXCEPT !.updated_at = @ + 1]]

Written(self, systems) == EmptyTable

Overlay(systems, written) ==
    [a \in (DOMAIN systems) \cup (DOMAIN written) |->
        IF a \in DOMAIN written THEN written[a] ELSE systems[a]]

\* "while hop_count < max_hops"
HopsLeft_Always(self) == TRUE

HopsLeft(self) == self.hop_count < MaxHops

\* "return None" of plan_route.
NoRoute(self) == [self EXCEPT !.pc = "report", !.result = "noroute", !.route = <<>>]

(* The planner's inputs. *)

Stars == 1..NumStars
StarName(a) == <<"Star", a>>
Places == {<<0, 0, 0>>, <<3, 0, 4>>, <<7, 3, 0>>, <<14, 0, 0>>, <<25, 0, 0>>}
Ranges == {10, 14}

StarRow(a, place) ==
    [name |-> StarName(a), x |-> place[1], y |-> place[2], z |-> place[3],
     coords |-> place, updated_at |-> 1]

\* A chain of systems one half light-year apart, longer than max_hops
\* jumps, to be travelled with a jump range of one half light-year.
Chain == 1..(MaxHops + 2)
ChainStore ==
    [EmptyStore EXCEPT !.systems = [a \in Chain |-> StarRow(a, <<a - 1, 0, 0>>)]]

\* Four systems of which two lie within jump range of the first and in
\* the second bubble searched around the target of its first hop.
Fork == 1..4
ForkPlaces == <<(<<0, 0, 0>>), (<<7, 3, 0>>), (<<5, 0, 0>>), (<<25, 0, 0>>)>>
ForkStore ==
    [EmptyStore EXCEPT !.systems = [a \in Fork |-> StarRow(a, ForkPlaces[a])]]

\* The arguments of one run: the store, and the indices of the two names
\* (0 names no system) with the jump range.
Runs ==
    {[store |-> [EmptyStore EXCEPT
                    !.systems = [a \in Stars |-> StarRow(a, places[a])]],
      s |-> s, e |-> e, r |-> r] :
        places \in [Stars -> Places], s \in {0, 1}, e \in {0} \cup Stars, r \in Ranges}
    \cup {[store |-> ChainStore, s |-> 1, e |-> e, r |-> 1] :
            e \in {MaxHops + 1, MaxHops + 2}}
    \cup {[store |-> ForkStore, s |-> 1, e |-> 4, r |-> 10]}

InitNav ==
    /\ \E run \in Runs :
        /\ store = run.store
        /\ nav = [pc |-> "main", start_name |-> StarName(run.s),
                  end_name |-> StarName(run.e),
                  max_jump_range |-> run.r, start |-> NoAddr, end |-> NoAddr,
                  route |-> <<>>, result |-> "none", current |-> NoAddr,
                  visited |-> {}, hop_count |-> 0, previous |-> None,
                  bubble_radius |-> 0, searches |-> 0, queries |-> 0,
                  chosen |-> NoAddr, reported |-> "none", exit |-> None]
    /\ before = store
    /\ pc = "poll"
    /\ frame = NoFrame
    /\ batch = <<>>
    /\ out = NoOut
    /\ replay = FALSE
    /\ delivered = <<>>
    /\ plan = {}
    /\ planned = {}
    /\ index = NoIndex
    /\ job = NoJob
    /\ life = NoLife
    /\ scope = NoScope
    /\ txn = NoTxn

\* main: the two get_system_by_name lookups; a name without a system is
\* logged as an error and main returns.
Resolve ==
    /\ nav.pc = "main"
    /\ LET starts == SystemsByName(store.systems, nav.start_name)
           ends == SystemsByName(store.systems, nav.end_name)
       IN IF starts = {} \/ ends = {}
          THEN nav' = [nav EXCEPT !.pc = "exit", !.result = "unresolved",
                                  !.reported = "not found"]
          ELSE \E s \in starts, e \in ends :
                nav' = [nav EXCEPT !.pc = "plan", !.start = s, !.end = e]
    /\ UNCHANGED <<store, pc, frame, batch, before, out, replay, delivered,
                   plan, planned, index, job, life, scope, txn>>

\* plan_route, up to the loop: the direct jump, or the start of the search.
PlanRoute ==
    /\ nav.pc = "plan"
    /\ nav' = IF CanJump(store.systems, nav.start, nav.end, nav.max_jump_range)
              THEN [nav EXCEPT !.pc = "report", !.result = "route",
                               !.route = <<nav.start, nav.end>>]
              ELSE [nav EXCEPT !.pc = "hop", !.route = <<nav.start>>,
                               !.current = nav.start, !.visited = {nav.start},
                               !.previous = None, !.hop_count = 0]
    /\ UNCHANGED <<store, pc, frame, batch, before, out, replay, delivered,
                   plan, planned, index, job, life, scope, txn>>

\* plan_route, the head of one iteration of "while hop_count < max_hops",
\* and the choice of the first bubble of find_best_system_at_range.
Hop ==
    /\ nav.pc = "hop"
    /\ nav' = IF ~HopsLeft(nav) THEN NoRoute(nav)
              ELSE IF CanJump(store.systems, nav.current, nav.end, nav.max_jump_range)
              THEN [nav EXCEPT !.pc = "report", !.result = "route",
                               !.hop_count = @ + 1,
                               !.route = Append(@, nav.end)]
              ELSE [nav EXCEPT !.pc = "bubble", !.hop_count = @ + 1,
                               !.bubble_radius = FirstBubble(nav.previous),
                               !.searches = 0, !.chosen = NoAddr]
    /\ UNCHANGED <<store, pc, frame, batch, before, out, replay, delivered,
                   plan, planned, index, job, life, scope, txn>>

\* find_best_system_at_range, one iteration of "while bubble_radius <=
\* max_bubble_radius", and what plan_route does with the value returned.
Bubble ==
    /\ nav.pc = "bubble"
    /\ IF nav.bubble_radius > MaxBubbleRadius
       THEN nav' = NoRoute(nav)
       ELSE LET candidates == Candidates(store.systems, nav.current, nav.end,
                                         nav.max_jump_range, nav.bubble_radius)
                valid == ValidCandidates(store.systems, candidates, nav.current,
                                         nav.max_jump_range)
                asked == [nav EXCEPT !.queries = @ + 1, !.searches = @ + 1]
            IN IF valid = {}
               THEN nav' = [asked EXCEPT !.bubble_radius =
                                ExpandBubble(@, Cardinality(candidates))]
               ELSE \E best \in BestCandidates(store.systems, valid, nav.current) :
                        nav' = IF best \in nav.visited
                               THEN NoRoute([asked EXCEPT !.chosen = best])
                               ELSE [asked EXCEPT !.pc = "hop",
                                                  !.chosen = best,
                                                  !.route = Append(@, best),
                                                  !.visited = @ \cup {best},
                                                  !.current = best,
                                                  !.previous = <<nav.bubble_radius>>]
    /\ UNCHANGED <<store, pc, frame, batch, before, out, replay, delivered,
                   plan, planned, index, job, life, scope, txn>>

\* main: print_route(route), or "No route found.".
Report ==
    /\ nav.pc = "report"
    /\ nav' = [nav EXCEPT !.pc = "exit",
                          !.reported = IF nav.result = "route" THEN "route"
                                       ELSE "no route"]
    /\ UNCHANGED <<store, pc, frame, batch, before, out, replay, delivered,
                   plan, planned, index, job, life, scope, txn>>

\* main returns: get_db closes the session and the interpreter exits; no
\* path of the script calls sys.exit, so the status is 0.
Exit ==
    /\ nav.pc = "exit"
    /\ store' = [store EXCEPT !.systems = Overlay(@, Written(nav, @))]
    /\ nav' = [nav EXCEPT !.pc = "done", !.exit = <<0>>]
    /\ UNCHANGED <<pc, frame, batch, before, out, replay, delivered,
                   plan, planned, index, job, life, scope, txn>>

NextNav ==
    \/ Resolve
    \/ PlanRoute
    \/ Hop
    \/ Bubble
    \/ Report
    \/ Exit

SpecNav == InitNav /\ [][NextNav]_vars

\* plan_route has returned after both systems were resolved.
Planned == nav.pc \in {"report", "exit", "done"} /\ nav.result \in {"route", "noroute"}

\* C23: a route plan_route returns starts at S, ends at G, has every
\* consecutive pair within the jump range, and names no system twice,
\* S = G included.
C23_RouteIsValid ==
    (Planned /\ nav.result = "route") =>
        /\ nav.route[1] = nav.start
        /\ nav.route[Len(nav.route)] = nav.end
        /\ \A i \in 1..(Len(nav.route) - 1) :
                WithinRange(store.systems[nav.route[i]],
                            store.systems[nav.route[i + 1]], nav.max_jump_range)
        /\ \A i, j \in 1..Len(nav.route) : nav.route[i] = nav.route[j] => i = j

\* The same with S = G left out: what remains of C23 holds.
C23_RouteIsValidWhenApart ==
    (Planned /\ nav.result = "route" /\ nav.start # nav.end) => C23_RouteIsValid

C25_DirectJump ==
    (Planned /\ WithinRange(store.systems[nav.start], store.systems[nav.end],
                            nav.max_jump_range))
        => nav.route = <<nav.start, nav.end>> /\ nav.queries = 0

C25_Witness ==
    /\ nav.pc = "done"
    /\ nav.result = "route"
    /\ nav.start # nav.end
    /\ DistSq(store.systems[nav.start], store.systems[nav.end]) = Sq(nav.max_jump_range)
    /\ nav.route = <<nav.start, nav.end>>

\* C26: a run of the planner, with or without a route, leaves every row
\* of the store as it was.
C26_PlannerLeavesStore == nav.pc # "off" => store = before

\* A run that ended with a route of several hops.
C26_Witness ==
    nav.pc = "done" /\ nav.result = "route" /\ Len(nav.route) >= 3 /\ nav.queries > 0

\* C27: a run that finds no route, or cannot resolve a name, reports it
\* and exits with a status other than 0.
C27_FailureExitsNonZero ==
    (nav.pc = "done" /\ nav.result \in {"noroute", "unresolved"})
        => nav.reported # "none" /\ nav.exit # <<0>>

---------------------------------------------------------------------------
(* scripts/manual_systems_update.py: a run of the bulk loader.             *)
(*                                                                         *)
(* A record of the file is [id64, name, coords, updateTime]; coords is a   *)
(* triple of optional numbers or NoPos, updateTime a timestamp string or   *)
(* NoTs.  job.sent is what committed calls of bulk_upsert_systems were     *)
(* given, job.held the batch in hand when the first signal arrived.        *)

\* parse_timestamp: strptime accepts 'YYYY-MM-DD HH:MM:SS+00' (completed to
\* +0000) and nothing else of what the files carry.
ParseTimestamp(timestamp_str) ==
    IF timestamp_str[2] = "+00" THEN <<timestamp_str[1]>> ELSE None

\* "not all([system_address, name, coords, update_time_str])".
Incomplete(record) ==
    \/ record.id64 = NoAddr
    \/ record.name = Absent
    \/ record.coords = NoPos
    \/ record.updateTime = NoTs

\* coords.get(k) if coords.get(k) is not None else 999999.999
CoordOrSentinel(c) == IF c = None THEN SentinelCoord ELSE c[1]

\* The dict appended to systems_batch.
BatchEntry(record) ==
    BulkRecord(record.id64, record.name,
               <<CoordOrSentinel(record.coords[1]), CoordOrSentinel(record.coords[2]),
                 CoordOrSentinel(record.coords[3])>>,
               ParseTimestamp(record.updateTime)[1])

\* A record that reaches the batch.
Usable(record) == ~Incomplete(record) /\ ParseTimestamp(record.updateTime) # None

\* args.dry_run
DryRun_Ignored(self) == FALSE

DryRun(self) == self.dry_run

\* run_import has returned (processed_count, upserted_count, skipped_count).
Returned(self, processed, upserted, skipped) ==
    [self EXCEPT !.pc = "summary",
                 !.result = [processed |-> processed, upserted |-> upserted,
                             skipped |-> skipped]]

\* rows_affected = bulk_upsert_systems(db, systems_batch); db.commit();
\* upserted_count += rows_affected.  An exception leaves the try block:
\* db.rollback(), and run_import returns the counts it has.
SendBatch(self, db) ==
    LET r == BulkUpsertSystems(db, self.systems_batch)
        called == [self EXCEPT !.calls = @ + 1]
    IN  IF r.raised
        THEN [db |-> db,
              job |-> Returned([called EXCEPT !.raised = TRUE],
                               self.processed_count, self.upserted_count,
                               self.processed_count - self.upserted_count)]
        ELSE [db |-> r.db,
              job |-> [called EXCEPT !.commits = @ + 1,
                                     !.sent = @ \o self.systems_batch,
                                     !.upserted_count = @ + r.rowcount,
                                     !.systems_batch = <<>>]]

\* One iteration of "for record in records" (lines 69-121).
ReadOne(self, db, record) ==
    IF self.shutdown_flag \/ (self.limit # 0 /\ self.processed_count >= self.limit)
    THEN [db |-> db, job |-> [self EXCEPT !.pc = "final"]]
    ELSE LET counted == [self EXCEPT !.processed_count = @ + 1, !.pos = @ + 1] IN
         IF ~Usable(record) THEN [db |-> db, job |-> counted]
         ELSE LET added == [counted EXCEPT !.systems_batch = Append(@, BatchEntry(record))] IN
              IF Len(added.systems_batch) < BatchSize THEN [db |-> db, job |-> added]
              ELSE IF DryRun(added)
              THEN [db |-> db,
                    job |-> Returned(added, added.processed_count,
                                     Len(added.systems_batch), 0)]
              ELSE SendBatch(added, db)

\* The final, smaller batch (lines 124-132) and the return at line 145.
FinalBatchOf(self, db) ==
    IF self.systems_batch = <<>> \/ self.shutdown_flag
    THEN [db |-> db,
          job |-> Returned(self, self.processed_count, self.upserted_count,
                           self.processed_count - self.upserted_count)]
    ELSE IF DryRun(self)
    THEN [db |-> db,
          job |-> Returned(self, self.processed_count,
                           self.upserted_count + Len(self.systems_batch),
                           self.processed_count
                             - (self.upserted_count + Len(self.systems_batch)))]
    ELSE LET r == SendBatch(self, db) IN
         [db |-> r.db,
          job |-> IF r.job.pc = "summary" THEN r.job
                  ELSE Returned(r.job, r.job.processed_count, r.job.upserted_count,
                                r.job.processed_count - r.job.upserted_count)]

(* The loader's inputs. *)

RawPos1 == << <<1000>>, <<2000>>, <<3000>> >>
RawPosNoX == << None, <<2000>>, <<3000>> >>

RawRecord(id64, name, coords, updateTime) ==
    [id64 |-> id64, name |-> name, coords |-> coords, updateTime |-> updateTime]

RawRecords ==
    {RawRecord(a, "Sol", RawPos1, <<1, "+00">>) : a \in Addrs}
    \cup {RawRecord(1, "Old", RawPosNoX, <<1, "+00">>),
          RawRecord(1, Absent, RawPos1, <<1, "+00">>),
          RawRecord(1, "Sol", RawPos1, <<1, "Z">>)}

RawFiles == SeqsUpTo(RawRecords, MaxFile)

InitJob ==
    /\ store = EmptyStore
    /\ before = EmptyStore
    /\ pc = "poll"
    /\ frame = NoFrame
    /\ batch = <<>>
    /\ out = NoOut
    /\ replay = FALSE
    /\ delivered = <<>>
    /\ plan = {}
    /\ planned = {}
    /\ index = NoIndex
    /\ nav = NoNav
    /\ life = NoLife
    /\ scope = NoScope
    /\ txn = NoTxn
    /\ \E file \in RawFiles, exists \in BOOLEAN, dry_run \in BOOLEAN, limit \in {0, BatchSize} :
        /\ exists \/ file = <<>>
        /\ job = [pc |-> "read", file |-> file, exists |-> exists,
                  dry_run |-> dry_run, limit |-> limit, pos |-> 0,
                  shutdown_flag |-> FALSE, processed_count |-> 0,
                  upserted_count |-> 0, systems_batch |-> <<>>,
                  calls |-> 0, commits |-> 0, sent |-> <<>>, held |-> <<>>,
                  interrupted |-> FALSE, raised |-> FALSE,
                  result |-> [processed |-> 0, upserted |-> 0, skipped |-> 0],
                  reported |-> FALSE]

\* signal_handler, for SIGINT or SIGTERM, at any point of the run.
Signal ==
    /\ job.pc \in {"read", "final", "summary"}
    /\ ~job.shutdown_flag
    /\ job' = [job EXCEPT !.shutdown_flag = TRUE,
                          !.interrupted = (job.pc = "read" /\ job.exists
                                           /\ job.pos < Len(job.file)),
                          !.held = job.systems_batch]
    /\ UNCHANGED <<store, pc, frame, batch, before, out, replay, delivered,
                   plan, planned, index, nav, life, scope, txn>>

\* run_import: gzip.open, then the loop over the records of the file.
ReadRecord ==
    /\ job.pc = "read"
    /\ LET r == IF ~job.exists
                THEN [db |-> store, job |-> Returned(job, 0, 0, 0)]
                ELSE IF job.pos >= Len(job.file)
                THEN [db |-> store, job |-> [job EXCEPT !.pc = "final"]]
                ELSE ReadOne(job, store, job.file[job.pos + 1])
       IN job' = r.job /\ store' = r.db
    /\ UNCHANGED <<pc, frame, batch, before, out, replay, delivered,
                   plan, planned, index, nav, life, scope, txn>>

\* run_import after the loop.
FinalBatch ==
    /\ job.pc = "final"
    /\ LET r == FinalBatchOf(job, store) IN job' = r.job /\ store' = r.db
    /\ UNCHANGED <<pc, frame, batch, before, out, replay, delivered,
                   plan, planned, index, nav, life, scope, txn>>

\* main: the summary logged in the finally block; the session is closed.
Summary ==
    /\ job.pc = "summary"
    /\ job' = [job EXCEPT !.pc = "done", !.reported = TRUE]
    /\ UNCHANGED <<store, pc, frame, batch, before, out, replay, delivered,
                   plan, planned, index, nav, life, scope, txn>>

NextJob ==
    \/ Signal
    \/ ReadRecord
    \/ FinalBatch
    \/ Summary

SpecJob == InitJob /\ [][NextJob]_vars

\* Every record of the sequence held is among those sent.
AllSent(held, sent) ==
    \A i \in 1..Len(held) : \E j \in 1..Len(sent) : sent[j] = held[i]

\* C28: a signal that arrives while records are being read has the batch
\* accumulated so far upserted and committed before the loader stops.
C28_SignalDrainsBatch ==
    (job.pc = "done" /\ job.interrupted /\ ~job.dry_run)
        => AllSent(job.held, job.sent) /\ job.reported

\* The usable records among the first n of the file.
UsableAmong(file, n) == Cardinality({i \in 1..n : Usable(file[i])})

\* C29: in dry-run mode no call of bulk_upsert_systems and no commit is
\* made, the store stays as it was, and the summary carries the number
\* of records reviewed and the number that would have been upserted.
C29_DryRunWritesNothing ==
    (job.pc # "off" /\ job.dry_run) =>
        /\ job.calls = 0
        /\ job.commits = 0
        /\ store = before
        /\ job.pc = "done" =>
            /\ job.reported
            /\ job.result.processed = job.processed_count
            /\ (job.exists /\ ~job.shutdown_flag) =>
                    job.result.upserted = UsableAmong(job.file, job.processed_count)

\* A dry run that stopped at its first full batch.
C29_Witness ==
    /\ job.pc = "done"
    /\ job.dry_run
    /\ job.limit = 0
    /\ ~job.shutdown_flag
    /\ job.result.upserted = BatchSize
    /\ job.pos < Len(job.file)

---------------------------------------------------------------------------
(* run_listener.py, main: the receive loop and its shutdown.               *)
(*                                                                         *)
(* A message on the wire is "empty", "badzlib" (zlib.decompress raises),   *)
(* "badjson" (json.loads raises JSONDecodeError) or a decoded frame.       *)
(* life.late counts the frames recv() returned after shutdown_flag was     *)
(* set, life.last is what the last recv() returned, life.outcome what the  *)
(* last process_eddn_message did, life.sessions the sessions opened and    *)
(* not closed, life.logged the level of the record the loop logged for it  *)
(* ("warning", "error" or "none"); these describe the iteration under way  *)
(* and are cleared at the head of the loop.  life.raised_count counts the  *)
(* frames since the last health report whose processing raised.  The       *)
(* signal handler runs between any two steps of the loop.                  *)

\* "while not shutdown_flag"
LoopEnds_Never(self) == FALSE

LoopEnds(self) == self.shutdown_flag

\* The quarter-hour health report resets the three counters.
HealthReport(self) ==
    [self EXCEPT !.processed_count = 0, !.accepted_count = 0, !.ignored_count = 0,
                 !.raised_count = 0]

(* The listener's inputs. *)

\* A journal frame, a frame of an unknown schema, a route that lists a
\* system twice after another one, and a snapshot that lists a commodity
\* twice.
WireFrames ==
    {Frame(JOURNAL, NoTs, <<1, "Z">>, SystemBody(SolItem)),
     Frame(UNSUPPORTED, NoTs, <<1, "Z">>, SystemBody(SolItem)),
     Frame(NAVROUTE, NoTs, <<1, "Z">>,
           RouteBody(NoItem, <<SystemItem(2, "Old", Absent, Pos1), SolItem, SolItem>>)),
     Frame(COMMODITY_SCHEMA_REF, NoTs, <<1, "Z">>,
           CommodityBody(1, "Hub", "Sol", NoList,
                         <<Listing("gold", <<10>>, <<5>>), Listing("gold", <<10>>, <<5>>)>>))}

WireFaults == {"empty", "badzlib", "badjson"}

InitLife ==
    /\ store = EmptyStore
    /\ before = EmptyStore
    /\ pc = "poll"
    /\ frame = NoFrame
    /\ batch = <<>>
    /\ out = NoOut
    /\ replay = FALSE
    /\ delivered = <<>>
    /\ plan = {}
    /\ planned = {}
    /\ index = NoIndex
    /\ nav = NoNav
    /\ job = NoJob
    /\ scope = NoScope
    /\ txn = NoTxn
    /\ life = [pc |-> "while", shutdown_flag |-> FALSE, processed_count |-> 0,
               accepted_count |-> 0, ignored_count |-> 0, raised_count |-> 0,
               received |-> 0,
               late |-> 0, last |-> "none", outcome |-> "none", sessions |-> 0,
               logged |-> "none",
               socket |-> "connected", context |-> "open", exit |-> None]

\* signal_handler, for SIGINT or SIGTERM.
SignalLife ==
    /\ life.pc \notin {"off", "closed"}
    /\ life' = [life EXCEPT !.shutdown_flag = TRUE]
    /\ UNCHANGED <<store, pc, frame, batch, before, out, replay, delivered,
                   plan, planned, index, nav, job, scope, txn>>

\* The head of the loop: leave it, or notify the watchdog and poll.
LoopHead ==
    /\ life.pc = "while"
    /\ life' = [life EXCEPT !.pc = IF LoopEnds(life) THEN "cleanup" ELSE "poll",
                            !.last = "none", !.outcome = "none", !.logged = "none"]
    /\ UNCHANGED <<store, pc, frame, batch, before, out, replay, delivered,
                   plan, planned, index, nav, job, scope, txn>>

\* subscriber.poll(timeout=1000): a message is ready, or the timeout.
Poll ==
    /\ life.pc = "poll"
    /\ \/ life' = [life EXCEPT !.pc = "while"]
       \/ /\ life.received < MaxWire
          /\ life' = [life EXCEPT !.pc = "recv"]
    /\ UNCHANGED <<store, pc, frame, batch, before, out, replay, delivered,
                   plan, planned, index, nav, job, scope, txn>>

\* What the loop does with a message that is no frame: an empty message
\* is skipped, JSONDecodeError is logged as a warning, and zlib.error falls
\* to "except Exception", which logs an error and sleeps.
Dropped(self, w) ==
    CASE w = "empty" -> [self EXCEPT !.pc = "while", !.last = w]
      [] w = "badjson" -> [self EXCEPT !.pc = "while", !.last = w, !.logged = "warning"]
      [] w = "badzlib" -> [self EXCEPT !.pc = "sleep", !.last = w, !.logged = "error"]

\* subscriber.recv(), zlib.decompress and json.loads.
RecvFrame ==
    /\ life.pc = "recv"
    /\ LET got == [life EXCEPT !.received = @ + 1] IN
       \/ /\ \E w \in WireFaults : life' = Dropped(got, w)
          /\ frame' = frame
       \/ \E m \in WireFrames :
            /\ frame' = m
            /\ life' = [got EXCEPT !.pc = "handle", !.last = "frame",
                                   !.processed_count = @ + 1,
                                   !.late = IF life.shutdown_flag THEN @ + 1 ELSE @]
    /\ UNCHANGED <<store, pc, batch, before, out, replay, delivered,
                   plan, planned, index, nav, job, scope, txn>>

\* get_db: "finally: db.close()" closes the session the block was given,
\* however the block is left.
SessionsClosed_UnlessRaised(r) == IF r.opened /\ r.result # "raised" THEN 1 ELSE 0

SessionsClosed(r) == IF r.opened THEN 1 ELSE 0

\* The counters after process_eddn_message returned (lines 237-241), or
\* the generic handler when it raised (lines 258-261).
Counted_IgnoredAlways(self, r) ==
    LET done == [self EXCEPT !.outcome = r.result,
                             !.sessions = @ + (IF r.opened THEN 1 ELSE 0)
                                            - SessionsClosed(r)]
    IN  IF r.result = "raised"
        THEN [done EXCEPT !.pc = "sleep", !.logged = "error",
                          !.raised_count = @ + 1]
        ELSE [done EXCEPT !.pc = "while",
                          !.accepted_count = IF r.accepted THEN @ + 1 ELSE @,
                          !.ignored_count = @ + 1]

Counted(self, r) ==
    LET done == [self EXCEPT !.outcome = r.result,
                             !.sessions = @ + (IF r.opened THEN 1 ELSE 0)
                                            - SessionsClosed(r)]
    IN  IF r.result = "raised"
        THEN [done EXCEPT !.pc = "sleep", !.logged = "error",
                          !.raised_count = @ + 1]
        ELSE [done EXCEPT !.pc = "while",
                          !.accepted_count = IF r.accepted THEN @ + 1 ELSE @,
                          !.ignored_count = IF r.ignored THEN @ + 1 ELSE @]

\* process_eddn_message(message), the counters and the health report.
Handle ==
    /\ life.pc = "handle"
    /\ \E pick \in Picks(store, frame), report \in BOOLEAN :
        LET r == ProcessEddnMessage(store, frame, pick)
            counted == Counted(life, r)
        IN  /\ store' = r.store
            /\ life' = IF report /\ r.result # "raised"
                       THEN HealthReport(counted) ELSE counted
    /\ before' = store
    /\ UNCHANGED <<pc, frame, batch, out, replay, delivered,
                   plan, planned, index, nav, job, scope, txn>>

\* "except Exception": the error is logged and the loop sleeps a second.
Sleep ==
    /\ life.pc = "sleep"
    /\ life' = [life EXCEPT !.pc = "while"]
    /\ UNCHANGED <<store, pc, frame, batch, before, out, replay, delivered,
                   plan, planned, index, nav, job, scope, txn>>

\* subscriber.close(); context.term(); sys.exit(0)
Cleanup ==
    /\ life.pc = "cleanup"
    /\ life' = [life EXCEPT !.pc = "closed", !.socket = "closed",
                            !.context = "terminated", !.exit = <<0>>]
    /\ UNCHANGED <<store, pc, frame, batch, before, out, replay, delivered,
                   plan, planned, index, nav, job, scope, txn>>

\* The steps of the listener's one thread.
LifeStep ==
    \/ LoopHead
    \/ Poll
    \/ RecvFrame
    \/ Handle
    \/ Sleep
    \/ Cleanup

NextLife ==
    \/ SignalLife
    \/ LifeStep

\* The interpreter keeps running the thread: poll and sleep return after
\* their timeout, and process_eddn_message returns.  Signals are the
\* environment's and need not come.
SpecLife == InitLife /\ [][NextLife]_vars /\ WF_vars(LifeStep)

\* The closed state, and the only way a run ends.
ClosedCleanly ==
    /\ life.pc = "closed" =>
            /\ life.shutdown_flag
            /\ life.socket = "closed"
            /\ life.context = "terminated"
            /\ life.exit = <<0>>
    /\ life.pc \notin {"closed", "off"} => ENABLED LifeStep

\* C30: once shutdown_flag is set the listener starts no new frame, leaves
\* the loop, closes socket and context and exits with status 0; it always
\* reaches the closed state, and stops in no other.
C30_NoFrameAfterSignal ==
    /\ [](life.late = 0 /\ ClosedCleanly)
    /\ (life.shutdown_flag ~> life.pc = "closed")

\* C30, amended: the iteration under way when the flag is set runs to its
\* end, and its poll may still deliver one frame, which is processed; no
\* frame is started after that one.
C30_ShutdownCloses ==
    /\ [](life.late <= 1 /\ ClosedCleanly)
    /\ (life.shutdown_flag ~> life.pc = "closed")

\* A run that closed after processing a frame received with the flag set.
C30_Witness ==
    life.pc = "closed" /\ life.late = 1 /\ life.exit = <<0>> /\ life.processed_count > 0

\* recv() has just returned a message that is not zlib data or not JSON.
MalformedArrives ==
    life.pc = "recv" /\ life'.pc # "recv" /\ life'.last \in {"badzlib", "badjson"}

\* The store and the three counters are as before, and the loop goes on.
DroppedQuietly ==
    /\ store' = store
    /\ life'.processed_count = life.processed_count
    /\ life'.accepted_count = life.accepted_count
    /\ life'.ignored_count = life.ignored_count
    /\ life'.pc \in {"while", "sleep"}

\* C31: a malformed frame (zlib or JSON) is dropped with a warning: store
\* and counters unchanged, and the loop continues.
C31_MalformedWarned ==
    [][MalformedArrives =>
        /\ DroppedQuietly
        /\ life'.logged = "warning"]_vars

\* What holds of C31 for both kinds: the frame changes neither the store
\* nor a counter, and the loop continues.
C31_MalformedDropped == [][MalformedArrives => DroppedQuietly]_vars

\* process_eddn_message has just raised.
FrameRaises == life.pc = "handle" /\ life'.pc # "handle" /\ life'.outcome = "raised"

\* C32: when the database raises while a frame is processed, nothing of
\* the frame is committed, the session is closed, and the loop goes on to
\* the next poll after its sleep.
C32_RaisedFrameLeavesStore ==
    [][FrameRaises =>
        /\ store' = store
        /\ life'.sessions = 0
        /\ life'.pc = "sleep"
        /\ life'.accepted_count = life.accepted_count
        /\ life'.ignored_count = life.ignored_count]_vars

\* The snapshot that raised after its station row had been written, and
\* the loop back at its head.
C32_Witness ==
    /\ life.pc = "while"
    /\ life.outcome = "raised"
    /\ life.logged = "error"
    /\ frame.schemaRef = COMMODITY_SCHEMA_REF
    /\ store.stations = EmptyTable
    /\ ~life.shutdown_flag

---------------------------------------------------------------------------
(* app/database.py: get_db, one "with get_db() as db:" block.              *)
(*                                                                         *)
(* scope.pending holds the rows the block has added or changed and not     *)
(* committed, scope.committed the systems table as the block's commits     *)
(* left it, scope.discarded what close() threw away.                       *)

\* "finally: db.close()": the session is closed, which rolls back what was
\* not committed; an exception of the block then goes on to the caller.
CloseOf_OnlyOnSuccess(self) ==
    IF self.pc = "raised"
    THEN [self EXCEPT !.pc = "out", !.propagated = TRUE]
    ELSE [self EXCEPT !.pc = "out", !.closes = @ + 1,
                      !.discarded = self.pending, !.pending = EmptyTable]

CloseOf(self) ==
    [self EXCEPT !.pc = "out", !.closes = @ + 1,
                 !.discarded = self.pending, !.pending = EmptyTable,
                 !.propagated = (self.pc = "raised")]

\* db = SessionLocal(); yield db
InitScope ==
    /\ store = EmptyStore
    /\ before = EmptyStore
    /\ pc = "poll"
    /\ frame = NoFrame
    /\ batch = <<>>
    /\ out = NoOut
    /\ replay = FALSE
    /\ delivered = <<>>
    /\ plan = {}
    /\ planned = {}
    /\ index = NoIndex
    /\ nav = NoNav
    /\ job = NoJob
    /\ life = NoLife
    /\ scope = [pc |-> "in", pending |-> EmptyTable, committed |-> EmptyTable,
                discarded |-> EmptyTable, closes |-> 0, propagated |-> FALSE]
    /\ txn = NoTxn

\* The block adds or changes a row through the session.
WriteRow(records) ==
    /\ scope.pc = "in"
    /\ \E rec \in records :
        scope' = [scope EXCEPT !.pending = Put(@, rec.system_address, SystemRow(rec))]
    /\ UNCHANGED <<store, pc, frame, batch, before, out, replay, delivered,
                   plan, planned, index, nav, job, life, txn>>

\* The block calls db.commit().
CommitScope ==
    /\ scope.pc = "in"
    /\ store' = [store EXCEPT !.systems = Overlay(@, scope.pending)]
    /\ scope' = [scope EXCEPT !.pending = EmptyTable,
                              !.committed = Overlay(store.systems, scope.pending)]
    /\ UNCHANGED <<pc, frame, batch, before, out, replay, delivered,
                   plan, planned, index, nav, job, life, txn>>

\* The block ends, or an exception leaves it.
LeaveBlock ==
    /\ scope.pc = "in"
    /\ \E how \in {"left", "raised"} : scope' = [scope EXCEPT !.pc = how]
    /\ UNCHANGED <<store, pc, frame, batch, before, out, replay, delivered,
                   plan, planned, index, nav, job, life, txn>>

\* The generator resumes after its yield and runs the finally clause.
CloseScope ==
    /\ scope.pc \in {"left", "raised"}
    /\ scope' = CloseOf(scope)
    /\ UNCHANGED <<store, pc, frame, batch, before, out, replay, delivered,
                   plan, planned, index, nav, job, life, txn>>

NextScope ==
    \/ WriteRow(BulkRecords)
    \/ CommitScope
    \/ LeaveBlock
    \/ CloseScope

SpecScope == InitScope /\ [][NextScope]_vars

\* C33: the session of a with-block is closed exactly once when the block
\* is left, normally or by an exception, and only what the block committed
\* is in the store.
C33_ClosedOnceNothingSlips ==
    scope.pc # "off" =>
        /\ store.systems = scope.committed
        /\ scope.pc \in {"in", "left", "raised"} => scope.closes = 0
        /\ scope.pc = "out" => scope.closes = 1 /\ scope.pending = EmptyTable

\* A block that committed one row, changed another and then raised.
C33_Witness ==
    /\ scope.pc = "out"
    /\ scope.propagated
    /\ scope.discarded # EmptyTable
    /\ store.systems # EmptyTable
    /\ \E a \in DOMAIN scope.discarded : a \notin DOMAIN store.systems

\* A search begins (find_best_system_at_range is entered); a search goes
\* on to its next radius.
SearchBegins == nav.pc = "hop" /\ nav'.pc = "bubble"
SearchWidens == nav.pc = "bubble" /\ nav'.pc = "bubble"

ValidNow ==
    ValidCandidates(store.systems,
                    Candidates(store.systems, nav.current, nav.end,
                               nav.max_jump_range, nav.bubble_radius),
                    nav.current, nav.max_jump_range)

\* C35: a search stops at the first bubble that holds a system other than
\* current within jump range, and chooses among these one minimising
\* |dist(current, c) - R| (all being within R: one of greatest distance);
\* a bubble without such a system is widened, which is no failure.
C35_FirstValidBubble ==
    [][(nav.pc = "bubble" /\ nav'.queries > nav.queries) =>
            IF ValidNow = {}
            THEN /\ nav'.pc = "bubble"
                 /\ nav'.result = "none"
                 /\ nav'.chosen = NoAddr
                 /\ nav'.bubble_radius > nav.bubble_radius
            ELSE /\ nav'.pc # "bubble"
                 /\ nav'.chosen \in ValidNow
                 /\ \A d \in ValidNow :
                        DistSq(store.systems[nav.current], store.systems[d])
                            <= DistSq(store.systems[nav.current],
                                      store.systems[nav'.chosen])]_vars

\* A system chosen in a widened bubble although a nearer one was in it.
C35_Witness ==
    /\ nav.pc = "hop"
    /\ nav.chosen # NoAddr
    /\ nav.searches >= 2
    /\ LET from == nav.route[Len(nav.route) - 1]
           valid == ValidCandidates(store.systems,
                        Candidates(store.systems, from, nav.end,
                                   nav.max_jump_range, nav.previous[1]),
                        from, nav.max_jump_range)
       IN /\ nav.chosen \in valid
          /\ \E d \in valid :
                DistSq(store.systems[from], store.systems[d])
                    < DistSq(store.systems[from], store.systems[nav.chosen])

\* C36: a chosen candidate that is already in the route ends the run with
\* no route at once; max_hops iterations without reaching G end it with
\* no route; a route returned has at most max_hops jumps.
C36_VisitedOrTooLong ==
    [][/\ (nav.pc = "bubble" /\ nav'.chosen # NoAddr /\ nav'.chosen \in nav.visited)
            => nav'.result = "noroute" /\ nav'.pc = "report"
       /\ (nav.pc = "hop" /\ nav.hop_count >= MaxHops)
            => nav'.result = "noroute" /\ nav'.pc = "report"
       /\ nav'.result = "route" => Len(nav'.route) - 1 <= MaxHops]_vars

\* The chain travelled for max_hops iterations without reaching its end.
C36_Witness ==
    /\ nav.pc = "done"
    /\ nav.result = "noroute"
    /\ nav.hop_count = MaxHops
    /\ Cardinality(nav.visited) = MaxHops + 1


---------------------------------------------------------------------------
(* The listener's transaction on one system message, step by step, beside  *)
(* another process that commits to the same table (the bulk loader).  The  *)
(* engine is created without an isolation level (database.py 20), so each  *)
(* statement of the transaction reads what is committed when it runs.      *)
(*   txn.loaded : the row the session holds for the address, <<>> if none  *)
(*   txn.sess   : the session after create_or_update_system                *)
(*   txn.between: another writer committed after the freshness read        *)

\* The UPDATE the flush emits for a changed object: the columns whose value
\* differs from the one loaded, and coords, which is assigned an expression.
FlushChanged(current, loaded, dirty) ==
    [col \in DOMAIN dirty |->
        IF col = "coords" \/ dirty[col] # loaded[col] THEN dirty[col]
        ELSE current[col]]

\* The store the listener starts beside: no row, or one row of address 1.
RaceStores ==
    {EmptyStore}
    \cup {[EmptyStore EXCEPT !.systems = Put(EmptyTable, rec.system_address,
                                             SystemRow(rec))] :
            rec \in {b \in BulkRecords : b.system_address = 1}}

InitRace ==
    /\ store \in RaceStores
    /\ frame \in ContentFrames
    /\ txn = [pc |-> "read", loaded |-> <<>>, sess |-> NewSession,
              result |-> "none", between |-> FALSE]
    /\ before = store
    /\ pc = "poll"
    /\ batch = <<>>
    /\ out = NoOut
    /\ replay = FALSE
    /\ delivered = <<>>
    /\ plan = {}
    /\ planned = {}
    /\ index = NoIndex
    /\ nav = NoNav
    /\ job = NoJob
    /\ life = NoLife
    /\ scope = NoScope

\* parse_and_update_system, lines 60-79: the freshness read.
ReadFreshness ==
    /\ txn.pc = "read"
    /\ LET system_address == frame.message.SystemAddress
           found == system_address \in DOMAIN store.systems
       IN txn' =
            IF system_address = NoAddr
            THEN [txn EXCEPT !.pc = "done", !.result = "ignored"]
            ELSE IF found /\ NotNewer(store.systems[system_address],
                                      MessageTimestamp(frame))
            THEN [txn EXCEPT !.pc = "done", !.result = "ignored"]
            ELSE [txn EXCEPT !.pc = "write",
                             !.loaded = IF found
                                        THEN <<store.systems[system_address]>>
                                        ELSE <<>>]
    /\ UNCHANGED <<store, pc, frame, batch, before, out, replay, delivered,
                   plan, planned, index, nav, job, life, scope>>

\* Lines 81-96 and create_or_update_system: its own query returns the object
\* the session holds, or loads the row if the session holds none.
WriteSystem ==
    /\ txn.pc = "write"
    /\ LET body == frame.message
           system_address == body.SystemAddress
           loaded == IF txn.loaded # <<>> THEN txn.loaded
                     ELSE IF system_address \in DOMAIN store.systems
                     THEN <<store.systems[system_address]>>
                     ELSE <<>>
           view == [store EXCEPT !.systems =
                        IF loaded = <<>> THEN EmptyTable
                        ELSE Put(EmptyTable, system_address, loaded[1])]
           coords == body.StarPos
           ok == coords # NoPos /\ Len(coords) = 3
       IN txn' = [txn EXCEPT
                    !.pc = "commit",
                    !.loaded = loaded,
                    !.sess = CreateOrUpdateSystem(
                                NewSession, view, system_address,
                                PyOr(body.StarSystem, body.System),
                                IF ok THEN <<coords[1]>> ELSE None,
                                IF ok THEN <<coords[2]>> ELSE None,
                                IF ok THEN <<coords[3]>> ELSE None,
                                MessageTimestamp(frame))]
    /\ UNCHANGED <<store, pc, frame, batch, before, out, replay, delivered,
                   plan, planned, index, nav, job, life, scope>>

\* process_eddn_message, line 185: db.commit().  The INSERT of a row whose
\* key is taken by now fails and the transaction is rolled back.
CommitTxn ==
    /\ txn.pc = "commit"
    /\ LET system_address == frame.message.SystemAddress IN
       IF txn.sess.new # <<>>
       THEN IF system_address \in DOMAIN store.systems
            THEN /\ store' = store
                 /\ txn' = [txn EXCEPT !.pc = "done", !.result = "raised"]
            ELSE /\ store' = [store EXCEPT !.systems =
                                Put(@, system_address, SystemRow(txn.sess.new[1]))]
                 /\ txn' = [txn EXCEPT !.pc = "done", !.result = "accepted"]
       ELSE /\ store' = [store EXCEPT !.systems[system_address] =
                            FlushChanged(@, txn.loaded[1],
                                         txn.sess.dirty[system_address])]
            /\ txn' = [txn EXCEPT !.pc = "done", !.result = "accepted"]
    /\ before' = store
    /\ UNCHANGED <<pc, frame, batch, out, replay, delivered,
                   plan, planned, index, nav, job, life, scope>>

\* run_import, lines 117-118: the loader commits a batch of one record
\* while the listener's transaction is open.
OtherWriter ==
    /\ txn.pc \in {"read", "write", "commit"}
    /\ \E rec \in BulkRecords :
        LET r == BulkUpsertSystems(store, <<rec>>) IN
        /\ r.db # store
        /\ store' = r.db
    /\ txn' = [txn EXCEPT !.between = @ \/ txn.pc \in {"write", "commit"}]
    /\ UNCHANGED <<pc, frame, batch, before, out, replay, delivered,
                   plan, planned, index, nav, job, life, scope>>

NextRace ==
    \/ ReadFreshness
    \/ WriteSystem
    \/ CommitTxn
    \/ OtherWriter

SpecRace == InitRace /\ [][NextRace]_vars

\* C37: when another writer commits a newer row for a system_address
\* between the listener's freshness read and its commit, the listener's
\* commit does not lower the stored updated_at of that system.
C37_CommitKeepsNewer ==
    [][(txn.pc = "commit" /\ txn'.pc = "done" /\ txn.between) =>
            \A a \in DOMAIN store.systems :
                store'.systems[a].updated_at >= store.systems[a].updated_at]_vars


\* The frame counted as processed whose process_eddn_message is under way.
InHand == IF life.pc = "handle" THEN 1 ELSE 0

\* C38: between two health reports accepted_count + ignored_count is at
\* most processed_count, and equal to it less the frames whose processing
\* raised (so equal when none did); a processed frame adds one to at most
\* one of accepted_count and ignored_count.
C38_CountersAddUp ==
    /\ [](life.pc # "off" =>
            /\ life.accepted_count + life.ignored_count <= life.processed_count
            /\ life.accepted_count + life.ignored_count + life.raised_count
                    = life.processed_count - InHand)
    /\ [][(life.pc = "handle" /\ life'.pc # "handle" /\ life'.processed_count # 0) =>
            /\ life'.processed_count = life.processed_count
            /\ life'.accepted_count - life.accepted_count \in {0, 1}
            /\ life'.ignored_count - life.ignored_count \in {0, 1}
            /\ (life'.accepted_count + life'.ignored_count)
                    - (life.accepted_count + life.ignored_count)
                = IF life'.outcome = "raised" THEN 0 ELSE 1]_vars

\* Three frames since the last report: one accepted, one ignored, and one
\* whose commit raised.
C38_Witness ==
    /\ life.pc = "while"
    /\ life.processed_count = 3
    /\ life.accepted_count = 1
    /\ life.ignored_count = 1
    /\ life.raised_count = 1


\* A journal body that carries a SystemAddress, without a StarPos of three
\* elements.
NoValidPos(body) ==
    /\ ~body.hasRoute
    /\ body.SystemAddress # NoAddr
    /\ ~(body.StarPos # NoPos /\ Len(body.StarPos) = 3)

\* C39: an accepted update of an existing system whose message has no
\* valid StarPos of three elements sets the stored x, y and z to the
\* sentinel 999999.999, whatever coordinates the row held.
C39_MissingPosOverwrites ==
    [][(/\ pc = "recv" /\ pc' = "done"
        /\ out'.result = "accepted"
        /\ out'.handler = "system"
        /\ NoValidPos(frame.message)
        /\ frame.message.SystemAddress \in DOMAIN store.systems) =>
            LET row == store'.systems[frame.message.SystemAddress] IN
            /\ row.x = SentinelCoord
            /\ row.y = SentinelCoord
            /\ row.z = SentinelCoord
            /\ row.coords = SentinelPos
            /\ row.updated_at = MessageTimestamp(frame)]_vars

\* A row that held real coordinates and holds the sentinel after a newer
\* message with a StarPos of two elements.
C39_Witness ==
    /\ pc = "done"
    /\ out.result = "accepted"
    /\ NoValidPos(frame.message)
    /\ frame.message.StarPos = BadPos
    /\ frame.message.SystemAddress \in DOMAIN before.systems
    /\ before.systems[frame.message.SystemAddress].coords = Pos1
    /\ store.systems[frame.message.SystemAddress].coords = SentinelPos


\* C40: a station row whose system_address is set keeps it through every
\* step, also when a later message names another system or one that is
\* not stored; a null system_address is filled only by an accepted, newer
\* commodity message of that station, with a stored system of its name.
C40_LinkIsWrittenOnce ==
    [][\A market_id \in DOMAIN store.stations :
        /\ market_id \in DOMAIN store'.stations
        /\ store.stations[market_id].system_address # NoAddr =>
                store'.stations[market_id].system_address
                    = store.stations[market_id].system_address
        /\ (/\ store.stations[market_id].system_address = NoAddr
            /\ store'.stations[market_id].system_address # NoAddr) =>
                /\ pc = "recv"
                /\ IsCommodityMessage(frame)
                /\ frame.message.marketId = market_id
                /\ out'.result = "accepted"
                /\ store.stations[market_id].updated_at < MessageTimestamp(frame)
                /\ store'.stations[market_id].system_address
                        \in SystemsNamed(store, frame.message.systemName)]_vars

\* A linked station was updated by a message that names another stored
\* system, and kept its link.
C40_Witness ==
    /\ CommodityAccepted
    /\ frame.message.marketId \in DOMAIN before.stations
    /\ before.stations[frame.message.marketId].system_address # NoAddr
    /\ ~Unresolved
    /\ before.stations[frame.message.marketId].system_address
            \notin SystemsNamed(before, frame.message.systemName)
    /\ store.stations[frame.message.marketId].system_address
            = before.stations[frame.message.marketId].system_address

=============================================================================
